---- MODULE Spec2Model ----
(***************************************************************************)
(* Invalidation and artifact-cache core of pants (twitter-commons).        *)
(*                                                                         *)
(*   base/build_invalidator.py     CacheKey, CacheKeyGenerator,            *)
(*                                 BuildInvalidator                        *)
(*   cache/local_artifact_cache.py LocalArtifactCache                      *)
(*                                                                         *)
(* A file system is a function from the paths that exist to their          *)
(* contents; a path is the sequence of its components.  The contents of a  *)
(* hash file are a sequence of characters.                                 *)
(***************************************************************************)
EXTENDS Integers, Sequences, FiniteSets, TLC

VARIABLES
  disk,         \* invalidator hash files: path -> characters
  calls,        \* the three most recent BuildInvalidator calls, with results
  lastWritten,  \* history: id -> hash of the last update not invalidated since
  ipc,          \* invalidator process -> position inside update()
  ikey,         \* invalidator process -> cache key of the update() under way
  idetached,    \* invalidator process -> its open file was unlinked meanwhile
  iobs,         \* the most recent read of a hash file: who, which id, what
  icfg,         \* invalidator process -> configured cache_key_gen_version
  itouched,     \* invalidator process -> hash files it has opened or unlinked
  cache,        \* artifact cache files and directories: path -> content
  compress,     \* LocalArtifactCache._compress
  read_only,    \* ArtifactCache.read_only
  cpc,          \* cache process -> position inside try_insert / use_cached_files
  ckey,         \* cache process -> cache key of its call under way
  cpaths,       \* cache process -> paths of its try_insert under way
  cuuid,        \* cache process -> uuid4 drawn by its try_insert under way
  chad,         \* cache process -> tarfile existed when its try_insert began
  nextUuid,     \* number of uuids drawn so far
  cret,         \* the most recent call that returned: what, of which key, result
  inserted,     \* history: keys with a completed try_insert and no delete since
  crashed,      \* history: the last try_insert killed between archive and rename
  build_files,  \* the BUILD files of the repository: file -> its target calls
  parser,       \* BuildFileParser: proxies by address, parsed files and families
  graph,        \* BuildGraph: address of a node -> its dependency addresses
  stack,        \* frames of inject_spec_closure_into_build_graph, innermost last
  addresses_already_closed, \* the visited set of the injection under way
  gcall,        \* the most recent parser call: what, result, graph when it began
  ncalls,       \* number of parser calls made so far
  made,         \* history: address -> number of Targets made of its proxy
  injected_times, \* history: address -> number of inject_target calls for it
  ginj,         \* history: the most recent inject_target, and the graph it met
  pcall,        \* the most recent call, if a parse_build_file(_family): what, result
  gen_version,  \* CacheKeyGenerator._cache_key_gen_version
  key_targets,  \* targets handed to key_for_target: id -> payload, dependencies
  key_calls,    \* history: the key_for_target calls made, with the key returned
  key_lists,    \* the lists of cache keys two callers hold
  combined,     \* caller -> what combine_cache_keys returned for its list
  registry,     \* the four class-level alias dicts of BuildFileParser
  rcall,        \* the most recent register_* call: what, and the registry it met
  nregs,        \* number of register_* calls made so far
  last_registered, \* history: partition -> alias -> object of its last registration
  last_of,      \* history: alias -> object of its last registration in any partition
  parse_context, \* the binding environment of the most recent BUILD file evaluated
  running,      \* WatchingSnapshotter.running (threading.Event)
  taken,        \* WatchingSnapshotter.taken (threading.Event)
  changed,      \* WatchingSnapshotter.changed (threading.Event)
  on_deck,      \* WatchingSnapshotter.on_deck (Queue.Queue(1))
  ppc,          \* producer thread: position inside producer_loop
  psnapshot,    \* producer thread: its local variable snapshot
  upc,          \* updater thread: position inside updater_loop
  upath,        \* updater thread: its local variable path
  gpc,          \* caller -> position inside get()
  gpath,        \* caller -> the local variable path of its get()
  spc,          \* main thread: position inside start() / stop()
  snapshots,    \* snapshot directories created so far: state and history of each
  returned      \* history: the paths get() returned, in order

ivars == <<disk, calls, lastWritten, ipc, ikey, idetached, iobs, icfg, itouched>>

cvars == <<cache, compress, read_only, cpc, ckey, cpaths, cuuid, chad, nextUuid, cret, inserted, crashed>>

gvars == <<build_files, parser, graph, stack, addresses_already_closed, gcall, ncalls, made,
          injected_times, ginj, pcall>>

kvars == <<gen_version, key_targets, key_calls, key_lists, combined>>

rvars == <<registry, rcall, nregs, last_registered, last_of, parse_context>>

svars == <<running, taken, changed, on_deck, ppc, psnapshot, upc, upath, gpc, gpath, spc,
          snapshots, returned>>

vars == <<ivars, cvars, gvars, kvars, rvars, svars>>

-----------------------------------------------------------------------------
(* Bounds and inputs *)

NumIds == 2

Ids == {"t" \o ToString(i) : i \in 1..NumIds}

\* Hex digests as hashlib produces them: whitespace-free, all of one length.
Hashes == {<<"a", "1">>, <<"b", "2">>}

\* CacheKey = namedtuple('CacheKey', ['id', 'hash', 'payloads'])
CacheKey(id, hash) == [id |-> id, hash |-> hash]

CacheKeys == {CacheKey(id, h) : id \in Ids, h \in Hashes}

\* Python's None, as a value no file content and no hash equals.
None == <<"<None>">>

Whitespace == {" ", "\n", "\t"}

ConfiguredRoot == <<"root">>

CfgVersions == {"", "v2"}

InvProcs == {"p1", "p2"}

-----------------------------------------------------------------------------
(* build_invalidator.py *)

GLOBAL_CACHE_KEY_GEN_VERSION == "6"

\* CacheKeyGenerator.__init__: the generator's version string.
CacheKeyGenVersion(cache_key_gen_version) ==
  cache_key_gen_version \o "_" \o GLOBAL_CACHE_KEY_GEN_VERSION

\* os.path.join(dir, name)
PathJoin(dir, name) == Append(dir, name)

IsUnder(path, dir) ==
  /\ Len(path) > Len(dir)
  /\ SubSeq(path, 1, Len(dir)) = dir

\* BuildInvalidator.__init__: self._root
BuildInvalidatorRoot_flat(root) == root

BuildInvalidatorRoot(root) == PathJoin(root, GLOBAL_CACHE_KEY_GEN_VERSION)

\* fs.safe_filename(id, extension): distinct ids get distinct file names.
safe_filename(id, extension) == id \o extension

\* BuildInvalidator._sha_file_by_id: one file per id under the root.
sha_file_by_id_shared(root, id) == PathJoin(root, safe_filename("", ".hash"))

sha_file_by_id(root, id) == PathJoin(root, safe_filename(id, ".hash"))

sha_file(root, cache_key) == sha_file_by_id(root, cache_key.id)

\* str.strip(): drops the whitespace at both ends.
RECURSIVE LStrip(_)
LStrip(s) ==
  IF s # <<>> /\ Head(s) \in Whitespace THEN LStrip(Tail(s)) ELSE s

RECURSIVE RStrip(_)
RStrip(s) ==
  IF s # <<>> /\ s[Len(s)] \in Whitespace
  THEN RStrip(SubSeq(s, 1, Len(s) - 1))
  ELSE s

Strip(s) == RStrip(LStrip(s))

\* A directory, as the content of its path.
Dir == <<"<dir>">>

\* An exception that leaves the call, as its result.
Raised == <<"<raised>">>

Exists(d, path) == path \in DOMAIN d

IsDir(d, path) == path \in DOMAIN d /\ d[path] = Dir

IsFile(d, path) == path \in DOMAIN d /\ d[path] # Dir

Dirname(path) == SubSeq(path, 1, Len(path) - 1)

Prefixes(path) == {SubSeq(path, 1, n) : n \in 1..Len(path)}

\* os.makedirs(dir) with EEXIST swallowed (safe_mkdir): dir and its ancestors.
MakeDirs(d, dir) ==
  [p \in DOMAIN d \cup Prefixes(dir) |-> IF p \in DOMAIN d THEN d[p] ELSE Dir]

\* shutil.rmtree(dir), a missing dir ignored (safe_rmtree).
RmTree(d, dir) ==
  [p \in {q \in DOMAIN d : q # dir /\ ~IsUnder(q, dir)} |-> d[p]]

\* safe_mkdir(dir, clean): rmtree when clean, then makedirs.
safe_mkdir(d, dir, clean) == MakeDirs(IF clean THEN RmTree(d, dir) ELSE d, dir)

\* open(path, 'w') succeeds when the directory of path exists.
CanOpenForWrite(d, path) == IsDir(d, Dirname(path)) /\ ~IsDir(d, path)

\* open(path, 'w'): creates the file or truncates it to nothing.
OpenTruncate(d, path) ==
  [p \in DOMAIN d \cup {path} |-> IF p = path THEN <<>> ELSE d[p]]

\* fd.write(text) and close on a file opened with 'w': the buffer, from offset 0.
WriteAll(d, path, text) ==
  [p \in DOMAIN d \cup {path} |-> IF p = path THEN text ELSE d[p]]

\* os.unlink(path) on a path that exists.
Unlink(d, path) == [p \in DOMAIN d \ {path} |-> d[p]]

\* errno of os.unlink(path)
UnlinkErrno(d, path) == IF IsFile(d, path) THEN "OK" ELSE "ENOENT"

\* BuildInvalidator.__init__: the file system after construction on root.
BuildInvalidatorInit(d, root) == safe_mkdir(d, BuildInvalidatorRoot(root), FALSE)

\* BuildInvalidator._write_sha raises when open() does.
write_sha_raises(d, root, cache_key) == ~CanOpenForWrite(d, sha_file(root, cache_key))

\* BuildInvalidator._write_sha, run without another process in between.
write_sha_append(d, root, cache_key) ==
  IF write_sha_raises(d, root, cache_key)
  THEN d
  ELSE WriteAll(d, sha_file(root, cache_key),
                (IF Exists(d, sha_file(root, cache_key))
                 THEN d[sha_file(root, cache_key)] ELSE <<>>) \o cache_key.hash)

write_sha(d, root, cache_key) ==
  IF write_sha_raises(d, root, cache_key)
  THEN d
  ELSE WriteAll(OpenTruncate(d, sha_file(root, cache_key)),
                sha_file(root, cache_key), cache_key.hash)

\* BuildInvalidator._read_sha_by_id: a missing file reads as None.
read_sha_by_id_empty(d, root, id) ==
  IF IsFile(d, sha_file_by_id(root, id))
  THEN Strip(d[sha_file_by_id(root, id)])
  ELSE <<>>

read_sha_by_id(d, root, id) ==
  IF IsFile(d, sha_file_by_id(root, id))
  THEN Strip(d[sha_file_by_id(root, id)])
  ELSE None

read_sha(d, root, cache_key) == read_sha_by_id(d, root, cache_key.id)

needs_update(d, root, cache_key) == read_sha(d, root, cache_key) # cache_key.hash

existing_hash(d, root, id) == read_sha_by_id(d, root, id)

update_raises(d, root, cache_key) == write_sha_raises(d, root, cache_key)

update(d, root, cache_key) == write_sha(d, root, cache_key)

\* BuildInvalidator.force_invalidate: only ENOENT is swallowed.
force_invalidate_raises_enoent(d, root, cache_key) ==
  UnlinkErrno(d, sha_file(root, cache_key)) # "OK"

force_invalidate_raises(d, root, cache_key) ==
  UnlinkErrno(d, sha_file(root, cache_key)) \notin {"OK", "ENOENT"}

force_invalidate(d, root, cache_key) ==
  IF UnlinkErrno(d, sha_file(root, cache_key)) = "OK"
  THEN Unlink(d, sha_file(root, cache_key))
  ELSE d

\* BuildInvalidator.force_invalidate_all
force_invalidate_all_rmtree(d, root) == RmTree(d, root)

force_invalidate_all(d, root) == safe_mkdir(d, root, TRUE)

-----------------------------------------------------------------------------
(* local_artifact_cache.py *)

MaxInserts == 2

CacheProcs == {"p1", "p2"}

CacheRoot == <<"cache">>

\* The output paths handed to try_insert.
PathSets == {{"out1"}, {"out1", "out2"}}

\* The characters of a hash as one path component.
RECURSIVE HashStr(_)
HashStr(h) == IF h = <<>> THEN "" ELSE Head(h) \o HashStr(Tail(h))

\* TarballArtifact.collect(paths), once the tarball is closed.
Archive(cache_key, paths) == <<"tar", cache_key.id, HashStr(cache_key.hash), paths>>

\* A tarball that is still being written.
Partial == <<"partial">>

\* Keys that differ in id alone and in hash alone.
ArtifactKeys ==
  {CacheKey("t1", <<"a", "1">>), CacheKey("t2", <<"a", "1">>), CacheKey("t1", <<"b", "2">>)}

Archives == {Archive(k, ps) : k \in ArtifactKeys, ps \in PathSets}

\* LocalArtifactCache._cache_dir_for_key
cache_dir_for_key(cache_key) ==
  PathJoin(PathJoin(CacheRoot, cache_key.id), HashStr(cache_key.hash))

\* LocalArtifactCache._cache_file_for_key.  The conditional expression binds
\* weaker than +: (join(...) + '.tar.gz') if self._compress else '.tar'.
cache_file_for_key(cmp, cache_key) ==
  IF cmp
  THEN PathJoin(PathJoin(CacheRoot, cache_key.id), HashStr(cache_key.hash) \o ".tar.gz")
  ELSE <<".tar">>

\* try_insert: tarfile + '.' + str(uuid.uuid4()) + '.tmp'
tmp_name_in_place(tarfile, uuid) == tarfile

tmp_name_no_uuid(tarfile, uuid) ==
  PathJoin(Dirname(tarfile), tarfile[Len(tarfile)] \o ".tmp")

tmp_name(tarfile, uuid) ==
  PathJoin(Dirname(tarfile), tarfile[Len(tarfile)] \o "." \o ToString(uuid) \o ".tmp")

\* safe_mkdir_for(path): os.makedirs('') raises for a path without directory.
safe_mkdir_for_raises(d, path) == Dirname(path) = <<>>

safe_mkdir_for(d, path) == safe_mkdir(d, Dirname(path), FALSE)

\* An archive file whose bytes are no longer a readable tarball.
Corrupt == <<"corrupt">>

\* TarballArtifact.extract() raises on a file that is not a complete tarball.
extract_raises(d, tarfile) == ~IsFile(d, tarfile) \/ d[tarfile] \notin Archives

\* os.rename(src, dst): dst is replaced in one step.
Rename(d, src, dst) ==
  [p \in (DOMAIN d \ {src}) \cup {dst} |-> IF p = dst THEN d[src] ELSE d[p]]

\* LocalArtifactCache.has
has(d, cache_key) == IsDir(d, cache_dir_for_key(cache_key))

\* LocalArtifactCache.delete
delete(d, cache_key) == RmTree(d, cache_dir_for_key(cache_key))

\* LocalArtifactCache.__init__: safe_mkdir(self._cache_root)
LocalArtifactCacheInit(d) == safe_mkdir(d, CacheRoot, FALSE)

NoKey == CacheKey("", None)

NoCrash == [key |-> NoKey, had |-> FALSE]

CacheIdle ==
  /\ cache = <<>>
  /\ compress = TRUE
  /\ read_only = FALSE
  /\ cpc = [p \in CacheProcs |-> "idle"]
  /\ ckey = [p \in CacheProcs |-> NoKey]
  /\ cpaths = [p \in CacheProcs |-> {}]
  /\ cuuid = [p \in CacheProcs |-> 0]
  /\ chad = [p \in CacheProcs |-> FALSE]
  /\ nextUuid = 0
  /\ cret = [op |-> "none", key |-> NoKey, ret |-> None, stored |-> FALSE, retry |-> FALSE]
  /\ inserted = {}
  /\ crashed = NoCrash

-----------------------------------------------------------------------------
(* build_file_parser.py *)

MaxCalls == 2

\* Target calls in the BUILD file of a parsed directory.
MaxDecls == 2

\* Python's recursion limit, in frames of the two closure functions.
RecursionLimit == 12

\* BuildFile(root_dir, spec_path): the file named BUILD of a directory.
BuildFile(spec_path) == [spec_path |-> spec_path, name |-> "BUILD"]

\* BuildFileAddress(build_file, target_name)
BuildFileAddress(build_file, target_name) ==
  [spec_path |-> build_file.spec_path, target_name |-> target_name]

\* Address.build_file
BuildFileOf(address) == BuildFile(address.spec_path)

\* Address.spec: the canonical string spec_path:target_name, as its tokens.
SpecOfAddress(address) == <<address.spec_path, ":", address.target_name>>

NoError == "none"

\* relative_to=None, as a path no directory has.
NoPath == "<None>"

\* parse_spec(spec, relative_to): split once at ':'; a spec without ':' is a
\* path whose basename is the name; an empty path is relative_to.
parse_spec(spec, relative_to) ==
  IF \E i \in 1..Len(spec) : spec[i] = ":"
  THEN LET i == CHOOSE j \in 1..Len(spec) :
                  spec[j] = ":" /\ \A h \in 1..(j - 1) : spec[h] # ":"
           left == SubSeq(spec, 1, i - 1)
           right == SubSeq(spec, i + 1, Len(spec))
       IN  [spec_path |-> IF left = <<>> THEN relative_to ELSE left[1],
            target_name |-> IF right = <<>> THEN "" ELSE right[1],
            raised |-> IF left = <<>> /\ relative_to = NoPath
                       THEN "ValueError" ELSE NoError]
  ELSE [spec_path |-> spec[1], target_name |-> spec[1], raised |-> NoError]

\* BuildFile.family(): the BUILD files of the directory, BUILD first.
FamilyNames == <<"BUILD", "BUILD.extra">>

family(files, build_file) ==
  SelectSeq([i \in 1..Len(FamilyNames) |->
               [spec_path |-> build_file.spec_path, name |-> FamilyNames[i]]],
            LAMBDA f : f \in DOMAIN files)

\* A target call of a BUILD file: alias(*args, **kwargs)
TargetCall(args, kwargs) == [args |-> args, kwargs |-> kwargs]

\* TargetProxy.__init__: the three assertions
TargetProxy_raises_args_allowed(call) ==
  \/ "name" \notin DOMAIN call.kwargs
  \/ "build_file" \in DOMAIN call.kwargs

TargetProxy_raises(call) ==
  \/ "name" \notin DOMAIN call.kwargs
  \/ call.args # <<>>
  \/ "build_file" \in DOMAIN call.kwargs

\* TargetProxy.__init__: dependencies = kwargs.pop('dependencies', [])
TargetProxy(build_file, call) ==
  [build_file |-> build_file,
   kwargs |-> [k \in DOMAIN call.kwargs \ {"dependencies"} |-> call.kwargs[k]],
   dependencies |-> IF "dependencies" \in DOMAIN call.kwargs
                    THEN call.kwargs["dependencies"] ELSE <<>>,
   name |-> call.kwargs["name"],
   address |-> BuildFileAddress(build_file, call.kwargs["name"])]

\* TargetProxy.dependency_addresses
dependency_addresses_head(target_proxy) ==
  [i \in 1..(IF target_proxy.dependencies = <<>> THEN 0 ELSE 1) |->
     LET p == parse_spec(target_proxy.dependencies[i], target_proxy.build_file.spec_path)
     IN  BuildFileAddress(BuildFile(p.spec_path), p.target_name)]

dependency_addresses(target_proxy) ==
  [i \in 1..Len(target_proxy.dependencies) |->
     LET p == parse_spec(target_proxy.dependencies[i], target_proxy.build_file.spec_path)
     IN  BuildFileAddress(BuildFile(p.spec_path), p.target_name)]

\* TargetProxy.to_target: target_type(build_graph=, address=, **kwargs) raises
\* on a parameter the target type does not take.
to_target_raises(target_proxy) == "bogus" \in DOMAIN target_proxy.kwargs

\* Target.traversable_specs: the specs the target found while constructed.
traversable_specs(target_proxy) ==
  IF "resources" \in DOMAIN target_proxy.kwargs
  THEN target_proxy.kwargs["resources"] ELSE <<>>

\* BuildFileParser.__init__
BuildFileParserInit ==
  [target_proxy_by_address |-> <<>>,
   addresses_by_build_file |-> <<>>,
   added_build_files |-> {},
   added_build_file_families |-> {}]

\* defaultdict(set)[key]
DefaultSet(f, key) == IF key \in DOMAIN f THEN f[key] ELSE {}

Put(f, key, val) == [k \in DOMAIN f \cup {key} |-> IF k = key THEN val ELSE f[k]]

\* parse_build_file: exec of the file's target calls up to the first that raises
RECURSIVE exec_function(_, _, _)
exec_function(build_file, code, i) ==
  IF i > Len(code) THEN [registered |-> <<>>, raised |-> NoError]
  ELSE IF TargetProxy_raises(code[i])
       THEN [registered |-> <<>>, raised |-> "AssertionError"]
       ELSE LET rest == exec_function(build_file, code, i + 1)
            IN  [registered |-> <<TargetProxy(build_file, code[i])>> \o rest.registered,
                 raised |-> rest.raised]

\* parse_build_file: assert target_proxy.address not in self._target_proxy_by_address
already_recorded_unchecked(ps, target_proxy) == FALSE

already_recorded(ps, target_proxy) ==
  target_proxy.address \in DOMAIN ps.target_proxy_by_address

\* parse_build_file: the loop over registered_target_proxies
RECURSIVE record_target_proxies(_, _, _, _)
record_target_proxies(ps, build_file, registered, i) ==
  IF i > Len(registered) THEN [ps |-> ps, raised |-> NoError]
  ELSE LET target_proxy == registered[i]
           seen == [ps EXCEPT !.addresses_by_build_file =
                      Put(@, build_file, DefaultSet(@, build_file))]
       IN  IF already_recorded(ps, target_proxy)
           THEN [ps |-> ps, raised |-> "AssertionError"]
           ELSE IF target_proxy.address \in DefaultSet(ps.addresses_by_build_file, build_file)
           THEN [ps |-> seen, raised |-> "AssertionError"]
           ELSE record_target_proxies(
                  [seen EXCEPT
                     !.target_proxy_by_address = Put(@, target_proxy.address, target_proxy),
                     !.addresses_by_build_file =
                        Put(@, build_file, DefaultSet(@, build_file) \cup {target_proxy.address})],
                  build_file, registered, i + 1)

\* BuildFileParser.parse_build_file
\* parse_build_file: if build_file in self._added_build_files: return
already_parsed_never(ps, build_file) == FALSE

already_parsed(ps, build_file) == build_file \in ps.added_build_files

\* (executed: the files whose code the call ran, each with what its collector
\* set held when the code ended or raised)
parse_build_file(files, ps, build_file) ==
  IF already_parsed(ps, build_file)
  THEN [ps |-> ps, raised |-> NoError, executed |-> <<>>]
  ELSE IF build_file \notin DOMAIN files
  THEN [ps |-> ps, raised |-> "IOError", executed |-> <<>>]
  ELSE LET run == exec_function(build_file, files[build_file], 1)
           ran == <<[build_file |-> build_file, registered |-> run.registered,
                     raised |-> run.raised]>>
       IN  IF run.raised # NoError
           THEN [ps |-> ps, raised |-> run.raised, executed |-> ran]
           ELSE LET rec == record_target_proxies(ps, build_file, run.registered, 1)
                IN  IF rec.raised # NoError
                    THEN [ps |-> rec.ps, raised |-> rec.raised, executed |-> ran]
                    ELSE [ps |-> [rec.ps EXCEPT !.added_build_files = @ \cup {build_file}],
                          raised |-> NoError, executed |-> ran]

RECURSIVE parse_family_files(_, _, _, _)
parse_family_files(files, ps, fam, i) ==
  IF i > Len(fam) THEN [ps |-> ps, raised |-> NoError, executed |-> <<>>]
  ELSE LET one == parse_build_file(files, ps, fam[i])
           rest == parse_family_files(files, one.ps, fam, i + 1)
       IN  IF one.raised # NoError THEN one
           ELSE [rest EXCEPT !.executed = one.executed \o @]

\* BuildFileParser.parse_build_file_family
parse_build_file_family(files, ps, build_file) ==
  IF build_file \in ps.added_build_file_families
  THEN [ps |-> ps, raised |-> NoError, executed |-> <<>>]
  ELSE LET all == parse_family_files(files, ps, family(files, build_file), 1)
       IN  IF all.raised # NoError THEN all
           ELSE [all EXCEPT !.ps.added_build_file_families = @ \cup {build_file}]

\* populate_target_proxy_transitive_closure_for_address.  The set
\* addresses_already_closed is one object for a whole top-level call: each
\* level adds its address before it recurses, so "or set()" never replaces
\* the set it was handed.
populate_closure_shallow(files, ps, address, closed, depth) ==
  LET fam == parse_build_file_family(files, ps, BuildFileOf(address))
  IN  IF fam.raised # NoError
      THEN [ps |-> fam.ps, closed |-> closed, raised |-> fam.raised]
      ELSE IF address \notin DOMAIN fam.ps.target_proxy_by_address
      THEN [ps |-> fam.ps, closed |-> closed, raised |-> "AssertionError"]
      ELSE [ps |-> fam.ps, closed |-> closed \cup {address}, raised |-> NoError]

RECURSIVE populate_closure(_, _, _, _, _)
RECURSIVE populate_dependencies(_, _, _, _, _, _)
populate_closure(files, ps, address, closed, depth) ==
  IF depth > RecursionLimit
  THEN [ps |-> ps, closed |-> closed, raised |-> "RuntimeError"]
  ELSE IF address \in closed
  THEN [ps |-> ps, closed |-> closed, raised |-> NoError]
  ELSE LET fam == parse_build_file_family(files, ps, BuildFileOf(address))
       IN  IF fam.raised # NoError
           THEN [ps |-> fam.ps, closed |-> closed, raised |-> fam.raised]
           ELSE IF address \notin DOMAIN fam.ps.target_proxy_by_address
           THEN [ps |-> fam.ps, closed |-> closed, raised |-> "AssertionError"]
           ELSE populate_dependencies(
                  files, fam.ps,
                  dependency_addresses(fam.ps.target_proxy_by_address[address]),
                  1, closed \cup {address}, depth)

populate_dependencies(files, ps, deps, i, closed, depth) ==
  IF i > Len(deps) THEN [ps |-> ps, closed |-> closed, raised |-> NoError]
  ELSE LET one == populate_closure(files, ps, deps[i], closed, depth + 1)
       IN  IF one.raised # NoError THEN one
           ELSE populate_dependencies(files, one.ps, deps, i + 1, one.closed, depth)

\* inject_spec_closure_into_build_graph: the test that guards the injection
should_inject_unvisited(g, closed, address) == address \notin DOMAIN g

should_inject(g, closed, address) == address \notin DOMAIN g /\ address \notin closed

\* inject_spec_closure_into_build_graph: what a level does, in order, once it
\* has decided to inject: the dependencies, the target, the traversable specs
Phases_target_first == <<"target", "dependencies", "traversables">>

Phases == <<"dependencies", "target", "traversables">>

\* BuildGraph.contains_address
contains_address(g, address) == address \in DOMAIN g

\* BuildGraph.inject_target(target, dependencies): the node and its edges
inject_target(g, address, dependencies) ==
  Put(g, address, {dependencies[i] : i \in 1..Len(dependencies)})

\* The addresses the BUILD files of this model declare.
Targets ==
  {BuildFileAddress(BuildFile("x"), "a"), BuildFileAddress(BuildFile("x"), "b"),
   BuildFileAddress(BuildFile("y"), "c")}

NoAddress == BuildFileAddress(BuildFile(""), "")

NoInjection == [address |-> NoAddress, missing |-> {}, visiting |-> {}]

NoCall == [op |-> "none", spec |-> <<>>, ret |-> NoError, graph0 |-> <<>>, made0 |-> 0]

NoParse ==
  [op |-> "none", build_file |-> BuildFile(""), ret |-> NoError, executed |-> <<>>,
   before |-> BuildFileParserInit]

GraphIdle ==
  /\ build_files = <<>>
  /\ parser = BuildFileParserInit
  /\ graph = <<>>
  /\ stack = <<>>
  /\ addresses_already_closed = {}
  /\ gcall = NoCall
  /\ ncalls = 0
  /\ made = [a \in Targets |-> 0]
  /\ injected_times = [a \in Targets |-> 0]
  /\ ginj = NoInjection
  /\ pcall = NoParse

-----------------------------------------------------------------------------
(* build_invalidator.py: CacheKeyGenerator *)

\* Keys in a list handed to combine_cache_keys.
MaxKeys == 3

\* CacheKey = namedtuple('CacheKey', ['id', 'hash', 'payloads']), with the
\* payloads, which BuildInvalidator and the artifact cache never read.
CacheKeyWithPayloads(id, hash, payloads) ==
  [id |-> id, hash |-> hash, payloads |-> payloads]

\* A byte string is the sequence of its pieces; the pieces that occur, in
\* the order of Python's comparison of str.
PieceOrder ==
  <<"(", ")", "_6", "p", "q">> \o [i \in 1..NumIds |-> "t" \o ToString(i)] \o <<"v2_6">>

Rank(piece) == CHOOSE i \in 1..Len(PieceOrder) : PieceOrder[i] = piece

\* s < t of two str
str_less(s, t) ==
  \E k \in 1..(Len(s) + 1) :
    /\ k <= Len(t)
    /\ \A h \in 1..(k - 1) : s[h] = t[h]
    /\ k <= Len(s) => Rank(s[k]) < Rank(t[k])

\* sorted(iterable)
RECURSIVE sorted(_)
sorted(seq) ==
  IF seq = <<>> THEN <<>>
  ELSE LET i == CHOOSE j \in 1..Len(seq) : \A h \in 1..Len(seq) : ~str_less(seq[h], seq[j])
       IN  <<seq[i]>> \o sorted(SubSeq(seq, 1, i - 1) \o SubSeq(seq, i + 1, Len(seq)))

\* ''.join(strs): what a hasher has absorbed after update(s) for each s
RECURSIVE Joined(_)
Joined(strs) == IF strs = <<>> THEN <<>> ELSE Head(strs) \o Joined(Tail(strs))

\* hashlib.sha1: hexdigest() of a hasher, as a str that names what the hasher
\* absorbed (equal digests for equal bytes, no collisions).
hexdigest(absorbed) == <<"(">> \o absorbed \o <<")">>

\* hash_utils.hash_all(strs): one sha1 over the strs in order
hash_all(strs) == hexdigest(Joined(strs))

\* Payload.invalidation_hash(hasher): the hasher absorbs the payload's bytes
invalidation_hash(absorbed, payload) == absorbed \o payload

\* Target.maybe_readable_combine_ids(ids): the id itself for one id, else
\* the ids joined in sorted order.
RECURSIVE JoinIds(_)
JoinIds(ids) ==
  IF Len(ids) = 1 THEN ids[1][1] ELSE ids[1][1] \o "." \o JoinIds(Tail(ids))

maybe_readable_combine_ids(ids) ==
  IF Len(ids) = 1 THEN ids[1] ELSE JoinIds(sorted([i \in 1..Len(ids) |-> <<ids[i]>>]))

\* combine_cache_keys: combined_hash
combined_hash_as_listed(hashes) == hash_all(hashes)

combined_hash(hashes) == hash_all(sorted(hashes))

\* combine_cache_keys: the branch for more than one key
combine_several(cache_keys) ==
  CacheKeyWithPayloads(
    maybe_readable_combine_ids([i \in 1..Len(cache_keys) |-> cache_keys[i].id]),
    combined_hash([i \in 1..Len(cache_keys) |-> cache_keys[i].hash]),
    sorted(Joined([i \in 1..Len(cache_keys) |-> cache_keys[i].payloads])))

\* CacheKeyGenerator.combine_cache_keys
combine_cache_keys_always_combines(cache_keys) == combine_several(cache_keys)

combine_cache_keys(cache_keys) ==
  IF Len(cache_keys) = 1 THEN cache_keys[1] ELSE combine_several(cache_keys)

\* key_for_target: for dep_hash in sorted(dep_hashes): hasher.update(dep_hash)
update_dep_hashes_as_listed(absorbed, dep_hashes) == absorbed \o Joined(dep_hashes)

update_dep_hashes(absorbed, dep_hashes) == absorbed \o Joined(sorted(dep_hashes))

\* CacheKeyGenerator.key_for_target
key_for_target_id_seeded(version, targets, id, transitive, depth) ==
  [key |-> CacheKeyWithPayloads(
             id, hexdigest(invalidation_hash(<<version, id>>, targets[id].payload)),
             <<targets[id].payload>>),
   raised |-> NoError]

RECURSIVE key_for_target(_, _, _, _, _)
key_for_target(version, targets, id, transitive, depth) ==
  IF depth > RecursionLimit
  THEN [key |-> CacheKeyWithPayloads(id, <<>>, <<>>), raised |-> "RuntimeError"]
  ELSE LET target == targets[id]
           seeded == invalidation_hash(<<version>>, target.payload)
           deps == IF transitive
                   THEN [i \in 1..Len(target.dependencies) |->
                           key_for_target(version, targets, target.dependencies[i],
                                          TRUE, depth + 1)]
                   ELSE <<>>
       IN  IF \E i \in 1..Len(deps) : deps[i].raised # NoError
           THEN [key |-> CacheKeyWithPayloads(id, <<>>, <<>>), raised |-> "RuntimeError"]
           ELSE [key |-> CacheKeyWithPayloads(
                           id,
                           hexdigest(IF transitive
                                     THEN update_dep_hashes(
                                            seeded, [i \in 1..Len(deps) |-> deps[i].key.hash])
                                     ELSE seeded),
                           <<target.payload>>),
                 raised |-> NoError]

NoCacheKey == CacheKeyWithPayloads("", <<>>, <<>>)

KeysIdle ==
  /\ gen_version = ""
  /\ key_targets = <<>>
  /\ key_calls = <<>>
  /\ key_lists = <<>>
  /\ combined = <<>>

-----------------------------------------------------------------------------
(* build_file_parser.py: the alias registry of BuildFileParser *)

\* The four class-level dicts, in the order parse_build_file reads them.
Partitions ==
  <<"exposed_objects", "partial_path_relative_utils",
    "applicative_path_relative_utils", "target_alias_map">>

PartitionNames == {Partitions[i] : i \in 1..Len(Partitions)}

\* _exposed_objects = {} ... _target_alias_map = {}
BuildFileParserRegistry == [p \in PartitionNames |-> <<>>]

\* register_*: warn if alias in the dict; dict[alias] = obj
register_keep_first(dict, alias, obj) ==
  [dict |-> IF alias \in DOMAIN dict THEN dict ELSE Put(dict, alias, obj),
   warned |-> alias \in DOMAIN dict, raised |-> NoError]

register(dict, alias, obj) ==
  [dict |-> Put(dict, alias, obj), warned |-> alias \in DOMAIN dict, raised |-> NoError]

\* dict.update(other)
dict_update(dict, other) ==
  [k \in DOMAIN dict \cup DOMAIN other |-> IF k \in DOMAIN other THEN other[k] ELSE dict[k]]

\* What parse_build_file binds to an alias: the object itself, partial(util,
\* rel_path=), util(rel_path=) or TargetCallProxy(target_type, build_file, ...).
Binding(partition, obj, build_file) ==
  [made_of |-> obj,
   how |-> CASE partition = "exposed_objects" -> "object"
             [] partition = "partial_path_relative_utils" -> "partial"
             [] partition = "applicative_path_relative_utils" -> "applied"
             [] partition = "target_alias_map" -> "TargetCallProxy",
   rel_path |-> IF partition = "exposed_objects" THEN NoPath ELSE build_file.spec_path]

\* parse_build_file: parse_context = {} and its four updates
RECURSIVE updated_with_partitions(_, _, _, _)
updated_with_partitions(context, reg, build_file, i) ==
  IF i > Len(Partitions) THEN context
  ELSE updated_with_partitions(
         dict_update(context, [a \in DOMAIN reg[Partitions[i]] |->
                            Binding(Partitions[i], reg[Partitions[i]][a], build_file)]),
         reg, build_file, i + 1)

ParseContext(reg, build_file) == updated_with_partitions(<<>>, reg, build_file, 1)

NoRegistration ==
  [op |-> "none", alias |-> "", obj |-> "", warned |-> FALSE, raised |-> NoError,
   before |-> BuildFileParserRegistry]

NoContext == [build_file |-> BuildFile(""), bindings |-> <<>>, at |-> 0]

RegistryIdle ==
  /\ registry = BuildFileParserRegistry
  /\ rcall = NoRegistration
  /\ nregs = 0
  /\ last_registered = BuildFileParserRegistry
  /\ last_of = <<>>
  /\ parse_context = NoContext

-----------------------------------------------------------------------------
(* fs/snapshot.py: WatchingSnapshotter *)

\* Queue.Queue(1): full() of the on-deck queue
Queue_full(queue) == Len(queue) >= 1

\* A snapshot directory: what it holds, whether a get() has taken it, and
\* whether a thread of the snapshotter has touched it after that.
Snapshot(state) == [state |-> state, handed |-> FALSE, tampered |-> FALSE]

\* SimpleSnapshotManager.create: a directory with a name not used before
dir_manager_create(dirs) == Append(dirs, Snapshot("created"))

\* A thread of the snapshotter leaves the directory in the given state.
Touched(dirs, path, state) ==
  [dirs EXCEPT ![path] = [@ EXCEPT !.state = state, !.tampered = @ \/ dirs[path].handed]]

\* SimpleSnapshotManager.destroy(snapshot): safe_rmtree
dir_manager_destroy(dirs, path) == Touched(dirs, path, "destroyed")

\* SimpleSnapshotManager.cleanup: safe_rmtree of each name os.listdir(output)
\* returns, which names a snapshot only if the process runs in output itself.
dir_manager_cleanup(dirs, cwd_is_output) ==
  IF cwd_is_output
  THEN [path \in 1..Len(dirs) |-> [dirs[path] EXCEPT !.state = "destroyed"]]
  ELSE dirs

\* producer_loop: the statements run when taken is set
ProducerSteps_put_first == <<"clear", "create", "put", "populate">>

ProducerSteps == <<"clear", "create", "populate", "put">>

\* The position after a statement of ProducerSteps.
ProducerAfter(step) ==
  LET i == CHOOSE j \in 1..Len(ProducerSteps) : ProducerSteps[j] = step
  IN  IF i < Len(ProducerSteps) THEN ProducerSteps[i + 1] ELSE "while"

SnapshotterIdle ==
  /\ running = FALSE
  /\ taken = FALSE
  /\ changed = FALSE
  /\ on_deck = <<>>
  /\ ppc = "unstarted"
  /\ psnapshot = 0
  /\ upc = "unstarted"
  /\ upath = 0
  /\ gpc = <<>>
  /\ gpath = <<>>
  /\ spc = "constructed"
  /\ snapshots = <<>>
  /\ returned = <<>>

-----------------------------------------------------------------------------
(* One BuildInvalidator on ConfiguredRoot, called by one process.  Every   *)
(* action is one whole call; calls keeps the last three with their result. *)

TheRoot == BuildInvalidatorRoot(ConfiguredRoot)

Call(op, id, hash, ret) == [op |-> op, id |-> id, hash |-> hash, ret |-> ret]

Record(c) == IF Len(calls) < 3 THEN Append(calls, c) ELSE Append(Tail(calls), c)

ProcsIdle ==
  /\ ipc = [p \in InvProcs |-> "idle"]
  /\ ikey = [p \in InvProcs |-> CacheKey("t1", None)]
  /\ idetached = [p \in InvProcs |-> FALSE]
  /\ iobs = [by |-> "p1", id |-> "t1", val |-> None]
  /\ icfg = [p \in InvProcs |-> ""]
  /\ itouched = [p \in InvProcs |-> {}]

InitInvalidator ==
  /\ disk = BuildInvalidatorInit(<<>>, ConfiguredRoot)
  /\ calls = <<>>
  /\ lastWritten = [id \in Ids |-> None]
  /\ ProcsIdle
  /\ CacheIdle
  /\ GraphIdle
  /\ KeysIdle
  /\ RegistryIdle
  /\ SnapshotterIdle

ProcsUnchanged == UNCHANGED <<ipc, ikey, idetached, iobs, icfg, itouched, cvars, gvars, kvars, rvars, svars>>

DoUpdate(k) ==
  /\ disk' = update(disk, TheRoot, k)
  /\ calls' = Record(Call("update", k.id, k.hash,
                          IF update_raises(disk, TheRoot, k) THEN Raised ELSE None))
  /\ lastWritten' = IF update_raises(disk, TheRoot, k)
                    THEN lastWritten
                    ELSE [lastWritten EXCEPT ![k.id] = k.hash]
  /\ ProcsUnchanged

DoNeedsUpdate(k) ==
  /\ calls' = Record(Call("needs_update", k.id, k.hash, needs_update(disk, TheRoot, k)))
  /\ UNCHANGED <<disk, lastWritten>>
  /\ ProcsUnchanged

DoExistingHash(id) ==
  /\ calls' = Record(Call("existing_hash", id, None, existing_hash(disk, TheRoot, id)))
  /\ UNCHANGED <<disk, lastWritten>>
  /\ ProcsUnchanged

DoForceInvalidate(k) ==
  /\ disk' = force_invalidate(disk, TheRoot, k)
  /\ calls' = Record(Call("force_invalidate", k.id, k.hash,
                          IF force_invalidate_raises(disk, TheRoot, k)
                          THEN Raised ELSE None))
  /\ lastWritten' = IF force_invalidate_raises(disk, TheRoot, k)
                    THEN lastWritten
                    ELSE [lastWritten EXCEPT ![k.id] = None]
  /\ ProcsUnchanged

DoForceInvalidateAll ==
  /\ disk' = force_invalidate_all(disk, TheRoot)
  /\ calls' = Record(Call("force_invalidate_all", "t1", None, None))
  /\ lastWritten' = [id \in Ids |-> None]
  /\ ProcsUnchanged

NextInvalidator ==
  \/ \E k \in CacheKeys : DoUpdate(k)
  \/ \E k \in CacheKeys : DoNeedsUpdate(k)
  \/ \E id \in Ids : DoExistingHash(id)
  \/ \E k \in CacheKeys : DoForceInvalidate(k)
  \/ DoForceInvalidateAll

SpecInvalidator == InitInvalidator /\ [][NextInvalidator]_vars

NCalls == Len(calls)

KeyOf(c) == CacheKey(c.id, c.hash)

\* C1: update(k) immediately followed by needs_update(k) returns false; when
\* update(k') with k'.id = k.id and k'.hash # k.hash comes in between,
\* needs_update(k) returns true.
C1_UpdateThenNeedsUpdate ==
  /\ \A i \in 1..(NCalls - 1) :
       ( /\ calls[i].op = "update"
         /\ calls[i + 1].op = "needs_update"
         /\ KeyOf(calls[i + 1]) = KeyOf(calls[i]) )
       => calls[i + 1].ret = FALSE
  /\ \A i \in 1..(NCalls - 2) :
       ( /\ calls[i].op = "update"
         /\ calls[i + 1].op = "update"
         /\ calls[i + 1].id = calls[i].id
         /\ calls[i + 1].hash # calls[i].hash
         /\ calls[i + 2].op = "needs_update"
         /\ KeyOf(calls[i + 2]) = KeyOf(calls[i]) )
       => calls[i + 2].ret = TRUE

C1_Witness ==
  /\ NCalls = 3
  /\ calls[1].op = "update" /\ calls[2].op = "update"
  /\ calls[3].op = "needs_update"
  /\ calls[2].id = calls[1].id /\ calls[2].hash # calls[1].hash
  /\ KeyOf(calls[3]) = KeyOf(calls[1])
  /\ calls[3].ret = TRUE

\* C2: whatever updates and invalidations came before, needs_update(key) is
\* true exactly when nothing is stored for key.id or the stored hash differs
\* from key.hash, and existing_hash(id) is the hash of the last update of id
\* not invalidated since, None when there is none.
C2_QueriesReflectStore ==
  \A i \in {NCalls} \ {0} :
    /\ calls[i].op = "needs_update"
         => calls[i].ret = ( \/ lastWritten[calls[i].id] = None
                             \/ lastWritten[calls[i].id] # calls[i].hash )
    /\ calls[i].op = "existing_hash"
         => calls[i].ret = lastWritten[calls[i].id]

C2_Witness ==
  /\ NCalls = 3
  /\ calls[1].op = "update"
  /\ calls[2].op = "force_invalidate" /\ calls[2].id # calls[1].id
  /\ calls[3].op = "existing_hash" /\ calls[3].id = calls[1].id
  /\ calls[3].ret = calls[1].hash

\* C4: after force_invalidate_all and then update(k1), needs_update(k1) is
\* false and needs_update(k2) is true for every k2 with the hash of k1 and
\* another id; update(k) leaves what is stored for every other id unchanged.
C4_UpdateTouchesOnlyItsId ==
  /\ [](\A i \in {NCalls} \ {0, 1} :
          ( /\ calls[i - 1].op = "force_invalidate_all"
            /\ calls[i].op = "update" )
          => /\ ~needs_update(disk, TheRoot, KeyOf(calls[i]))
             /\ \A id \in Ids \ {calls[i].id} :
                  needs_update(disk, TheRoot, CacheKey(id, calls[i].hash)))
  /\ [][\A k \in CacheKeys :
          DoUpdate(k) =>
            \A id \in Ids \ {k.id} :
              existing_hash(disk', TheRoot, id) = existing_hash(disk, TheRoot, id)]_vars

C4_Witness ==
  /\ NCalls = 3
  /\ calls[1].op = "force_invalidate_all"
  /\ calls[2].op = "update" /\ calls[2].ret = None
  /\ calls[3].op = "needs_update" /\ calls[3].ret = TRUE
  /\ calls[3].id # calls[2].id /\ calls[3].hash = calls[2].hash
  /\ ~needs_update(disk, TheRoot, KeyOf(calls[2]))

\* C5: force_invalidate(key) does not raise, also when nothing is stored for
\* key.id; after it needs_update(key) is true, existing_hash(key.id) is None
\* and what is stored for every other id is unchanged.
C5_ForceInvalidate ==
  [][\A k \in CacheKeys :
       DoForceInvalidate(k) =>
         /\ calls'[Len(calls')].ret # Raised
         /\ needs_update(disk', TheRoot, k)
         /\ existing_hash(disk', TheRoot, k.id) = None
         /\ \A id \in Ids \ {k.id} :
              existing_hash(disk', TheRoot, id) = existing_hash(disk, TheRoot, id)]_vars

C5_Witness ==
  /\ NCalls = 3
  /\ calls[1].op = "update"
  /\ calls[2].op = "force_invalidate" /\ calls[2].id # calls[1].id
  /\ calls[3].op = "force_invalidate" /\ calls[3].id = calls[2].id
  /\ calls[3].ret = None
  /\ existing_hash(disk, TheRoot, calls[1].id) = calls[1].hash
  /\ existing_hash(disk, TheRoot, calls[3].id) = None

\* C6: right after force_invalidate_all nothing is stored (needs_update is
\* true of every key, existing_hash is None for every id); an update(k) that
\* follows does not raise and makes needs_update(k) false.
C6_ForceInvalidateAll ==
  /\ \A i \in {NCalls} \ {0} :
       calls[i].op = "force_invalidate_all"
       => /\ \A k \in CacheKeys : needs_update(disk, TheRoot, k)
          /\ \A id \in Ids : existing_hash(disk, TheRoot, id) = None
  /\ \A i \in 1..(NCalls - 1) :
       ( /\ calls[i].op = "force_invalidate_all"
         /\ calls[i + 1].op = "update" )
       => calls[i + 1].ret = None
  /\ \A i \in 1..(NCalls - 2) :
       ( /\ calls[i].op = "force_invalidate_all"
         /\ calls[i + 1].op = "update"
         /\ calls[i + 2].op = "needs_update"
         /\ KeyOf(calls[i + 2]) = KeyOf(calls[i + 1]) )
       => calls[i + 2].ret = FALSE

C6_Witness ==
  /\ NCalls = 3
  /\ calls[1].op = "update" /\ calls[1].ret = None
  /\ calls[2].op = "force_invalidate_all"
  /\ calls[3].op = "update" /\ calls[3].ret = None
  /\ calls[3].id # calls[1].id
  /\ existing_hash(disk, TheRoot, calls[1].id) = None
  /\ ~needs_update(disk, TheRoot, KeyOf(calls[3]))

-----------------------------------------------------------------------------
(* Several processes on one configured root, each with its own             *)
(* BuildInvalidator.  A step is one system call: update() is open(path,    *)
(* 'w'), which creates or truncates the file, and then the write of the    *)
(* buffered hash when the with-block closes it; a read of a hash file and  *)
(* an unlink are one step each; force_invalidate_all is rmtree then        *)
(* makedirs.                                                               *)

WritersOf(path) ==
  {p \in InvProcs : ipc[p] = "opened" /\ sha_file(TheRoot, ikey[p]) = path}

\* The descriptors of unlinked files no longer name a path.
Detach(gone) ==
  [p \in InvProcs |->
     idetached[p] \/ \E path \in gone : p \in WritersOf(path)]

InitProcs ==
  /\ disk = BuildInvalidatorInit(<<>>, ConfiguredRoot)
  /\ calls = <<>>
  /\ lastWritten = [id \in Ids |-> None]
  /\ ProcsIdle
  /\ CacheIdle
  /\ GraphIdle
  /\ KeysIdle
  /\ RegistryIdle
  /\ SnapshotterIdle

\* update(): open(self._sha_file(cache_key), 'w')
PUpdateOpen(p, k) ==
  /\ ipc[p] = "idle"
  /\ IF write_sha_raises(disk, TheRoot, k)
     THEN UNCHANGED <<disk, ipc, ikey, idetached>>
     ELSE /\ disk' = OpenTruncate(disk, sha_file(TheRoot, k))
          /\ ipc' = [ipc EXCEPT ![p] = "opened"]
          /\ ikey' = [ikey EXCEPT ![p] = k]
          /\ idetached' = [idetached EXCEPT ![p] = FALSE]
  /\ UNCHANGED <<iobs, calls, lastWritten, icfg, itouched, cvars, gvars, kvars, rvars, svars>>

\* update(): fd.write(cache_key.hash), flushed when the with-block ends
PUpdateWrite(p) ==
  /\ ipc[p] = "opened"
  /\ disk' = IF idetached[p]
             THEN disk
             ELSE WriteAll(disk, sha_file(TheRoot, ikey[p]), ikey[p].hash)
  /\ ipc' = [ipc EXCEPT ![p] = "idle"]
  /\ ikey' = [ikey EXCEPT ![p] = CacheKey("t1", None)]
  /\ idetached' = [idetached EXCEPT ![p] = FALSE]
  /\ UNCHANGED <<iobs, calls, lastWritten, icfg, itouched, cvars, gvars, kvars, rvars, svars>>

\* needs_update() and existing_hash(): _read_sha_by_id
PRead(p, id) ==
  /\ ipc[p] = "idle"
  /\ iobs' = [by |-> p, id |-> id, val |-> read_sha_by_id(disk, TheRoot, id)]
  /\ UNCHANGED <<disk, ipc, ikey, idetached, calls, lastWritten, icfg, itouched, cvars, gvars, kvars, rvars, svars>>

\* force_invalidate(): os.unlink
PForceInvalidate(p, k) ==
  /\ ipc[p] = "idle"
  /\ disk' = force_invalidate(disk, TheRoot, k)
  /\ idetached' = Detach({sha_file(TheRoot, k)})
  /\ UNCHANGED <<ipc, ikey, iobs, calls, lastWritten, icfg, itouched, cvars, gvars, kvars, rvars, svars>>

\* force_invalidate_all(): safe_mkdir(clean=True) removes the tree ...
PCleanRmTree(p) ==
  /\ ipc[p] = "idle"
  /\ disk' = RmTree(disk, TheRoot)
  /\ idetached' = Detach({q \in DOMAIN disk : IsUnder(q, TheRoot)})
  /\ ipc' = [ipc EXCEPT ![p] = "cleaning"]
  /\ UNCHANGED <<ikey, iobs, calls, lastWritten, icfg, itouched, cvars, gvars, kvars, rvars, svars>>

\* ... and makes the directory again
PCleanMakeDirs(p) ==
  /\ ipc[p] = "cleaning"
  /\ disk' = MakeDirs(disk, TheRoot)
  /\ ipc' = [ipc EXCEPT ![p] = "idle"]
  /\ UNCHANGED <<ikey, idetached, iobs, calls, lastWritten, icfg, itouched, cvars, gvars, kvars, rvars, svars>>

NextProcs ==
  \/ \E p \in InvProcs, k \in CacheKeys : PUpdateOpen(p, k)
  \/ \E p \in InvProcs : PUpdateWrite(p)
  \/ \E p \in InvProcs, id \in Ids : PRead(p, id)
  \/ \E p \in InvProcs, k \in CacheKeys : PForceInvalidate(p, k)
  \/ \E p \in InvProcs : PCleanRmTree(p)
  \/ \E p \in InvProcs : PCleanMakeDirs(p)

SpecInvalidatorProcs == InitProcs /\ [][NextProcs]_vars

\* C3: a read of a hash file that runs while another process updates the
\* same id returns the hash stored before (or None) or the complete new
\* hash, never an empty or partial value.
C3_ReadsSeeWholeHashes == iobs.val \in Hashes \cup {None}

-----------------------------------------------------------------------------
(* Clients configured with different cache_key_gen_version values, each    *)
(* with a CacheKeyGenerator(icfg[p]) and a BuildInvalidator on the same    *)
(* configured root.  Every action is one whole call.                       *)

InitVersions ==
  /\ disk = BuildInvalidatorInit(<<>>, ConfiguredRoot)
  /\ calls = <<>>
  /\ lastWritten = [id \in Ids |-> None]
  /\ ipc = [p \in InvProcs |-> "idle"]
  /\ ikey = [p \in InvProcs |-> CacheKey("t1", None)]
  /\ idetached = [p \in InvProcs |-> FALSE]
  /\ iobs = [by |-> "p1", id |-> "t1", val |-> None]
  /\ icfg \in [InvProcs -> CfgVersions]
  /\ itouched = [p \in InvProcs |-> {}]
  /\ CacheIdle
  /\ GraphIdle
  /\ KeysIdle
  /\ RegistryIdle
  /\ SnapshotterIdle

Touch(p, paths) == itouched' = [itouched EXCEPT ![p] = @ \cup paths]

VFrame == UNCHANGED <<calls, ipc, ikey, idetached, icfg, cvars, gvars, kvars, rvars, svars>>

VUpdate(p, k) ==
  /\ disk' = update(disk, TheRoot, k)
  /\ lastWritten' = IF update_raises(disk, TheRoot, k)
                    THEN lastWritten
                    ELSE [lastWritten EXCEPT ![k.id] = k.hash]
  /\ Touch(p, {sha_file(TheRoot, k)})
  /\ UNCHANGED iobs
  /\ VFrame

VRead(p, id) ==
  /\ iobs' = [by |-> p, id |-> id, val |-> existing_hash(disk, TheRoot, id)]
  /\ Touch(p, {sha_file_by_id(TheRoot, id)})
  /\ UNCHANGED <<disk, lastWritten>>
  /\ VFrame

VForceInvalidate(p, k) ==
  /\ disk' = force_invalidate(disk, TheRoot, k)
  /\ lastWritten' = [lastWritten EXCEPT ![k.id] = None]
  /\ Touch(p, {sha_file(TheRoot, k)})
  /\ UNCHANGED iobs
  /\ VFrame

VForceInvalidateAll(p) ==
  /\ disk' = force_invalidate_all(disk, TheRoot)
  /\ lastWritten' = [id \in Ids |-> None]
  /\ Touch(p, {q \in DOMAIN disk : IsUnder(q, TheRoot)})
  /\ UNCHANGED iobs
  /\ VFrame

NextVersions ==
  \/ \E p \in InvProcs, k \in CacheKeys : VUpdate(p, k)
  \/ \E p \in InvProcs, id \in Ids : VRead(p, id)
  \/ \E p \in InvProcs, k \in CacheKeys : VForceInvalidate(p, k)
  \/ \E p \in InvProcs : VForceInvalidateAll(p)

SpecVersions == InitVersions /\ [][NextVersions]_vars

\* C7 as claimed: invalidators whose generators have different version
\* strings read and write disjoint sets of hash files.
C7_DisjointPerGeneratorVersion ==
  \A p, q \in InvProcs :
    CacheKeyGenVersion(icfg[p]) # CacheKeyGenVersion(icfg[q])
    => itouched[p] \cap itouched[q] = {}

\* C7 as amended: every hash file a BuildInvalidator reads or writes lies in
\* <root>/<GLOBAL_CACHE_KEY_GEN_VERSION>/, never in a directory named after
\* its generator's version string, and what one client stored is what every
\* client on the root reads, whatever their configured versions.
C7_StoredUnderGlobalVersion ==
  /\ \A p \in InvProcs : \A path \in itouched[p] :
       /\ Dirname(path) = PathJoin(ConfiguredRoot, GLOBAL_CACHE_KEY_GEN_VERSION)
       /\ Dirname(path) # PathJoin(ConfiguredRoot, CacheKeyGenVersion(icfg[p]))
  /\ \A id \in Ids : existing_hash(disk, TheRoot, id) = lastWritten[id]

C7_Witness ==
  \E p, q \in InvProcs :
    /\ CacheKeyGenVersion(icfg[p]) # CacheKeyGenVersion(icfg[q])
    /\ itouched[p] \cap itouched[q] # {}
    /\ iobs.by = q /\ iobs.val \in Hashes
    /\ lastWritten[iobs.id] = iobs.val

-----------------------------------------------------------------------------
(* Processes sharing one LocalArtifactCache directory.  A step of          *)
(* try_insert and use_cached_files is one system call (the writing of the  *)
(* tarball is its creation and its completion); has and delete are one     *)
(* step.  A process can be killed at any point of a call; the files it     *)
(* made stay.                                                              *)

TarFile(p) == cache_file_for_key(compress, ckey[p])

TmpFile(p) == tmp_name(TarFile(p), cuuid[p])

Returned(op, k, ret) ==
  cret' = [op |-> op, key |-> k, ret |-> ret, stored |-> k \in inserted,
           retry |-> (op = "try_insert" /\ k = crashed.key)]

Goto(p, at) == cpc' = [cpc EXCEPT ![p] = at]

Forget(p) ==
  /\ ckey' = [ckey EXCEPT ![p] = NoKey]
  /\ cpaths' = [cpaths EXCEPT ![p] = {}]
  /\ cuuid' = [cuuid EXCEPT ![p] = 0]
  /\ chad' = [chad EXCEPT ![p] = FALSE]

InitCache ==
  /\ disk = <<>>
  /\ calls = <<>>
  /\ lastWritten = [id \in Ids |-> None]
  /\ ProcsIdle
  /\ GraphIdle
  /\ KeysIdle
  /\ RegistryIdle
  /\ SnapshotterIdle
  /\ cache = LocalArtifactCacheInit(<<>>)
  /\ compress \in BOOLEAN
  /\ read_only \in BOOLEAN
  /\ cpc = [p \in CacheProcs |-> "idle"]
  /\ ckey = [p \in CacheProcs |-> NoKey]
  /\ cpaths = [p \in CacheProcs |-> {}]
  /\ cuuid = [p \in CacheProcs |-> 0]
  /\ chad = [p \in CacheProcs |-> FALSE]
  /\ nextUuid = 0
  /\ cret = [op |-> "none", key |-> NoKey, ret |-> None, stored |-> FALSE, retry |-> FALSE]
  /\ inserted = {}
  /\ crashed = NoCrash

CFrame == UNCHANGED <<ivars, gvars, kvars, rvars, svars, compress, read_only>>

\* os.unlink(path) when os.path.exists(path)
UnlinkIfExists(d, path) == IF IsFile(d, path) THEN Unlink(d, path) ELSE d

\* try_insert: safe_mkdir_for(tarfile); tarfile_tmp = tarfile + uuid4 + '.tmp';
\* if os.path.exists(tarfile_tmp): os.unlink(tarfile_tmp)
TryInsertMkdir(p, k, paths) ==
  /\ cpc[p] = "idle"
  /\ nextUuid < MaxInserts
  /\ IF safe_mkdir_for_raises(cache, cache_file_for_key(compress, k))
     THEN /\ Returned("try_insert", k, Raised)
          /\ UNCHANGED <<cache, cpc, ckey, cpaths, cuuid, chad>>
     ELSE /\ chad' = [chad EXCEPT ![p] = Exists(cache, cache_file_for_key(compress, k))]
          /\ cache' = UnlinkIfExists(
                        safe_mkdir_for(cache, cache_file_for_key(compress, k)),
                        tmp_name(cache_file_for_key(compress, k), nextUuid + 1))
          /\ Goto(p, "collect")
          /\ ckey' = [ckey EXCEPT ![p] = k]
          /\ cpaths' = [cpaths EXCEPT ![p] = paths]
          /\ cuuid' = [cuuid EXCEPT ![p] = nextUuid + 1]
          /\ UNCHANGED cret
  /\ nextUuid' = nextUuid + 1
  /\ UNCHANGED <<inserted, crashed>>
  /\ CFrame

\* try_insert: artifact.collect(paths) creates the tarball at tarfile_tmp ...
TryInsertCollectOpen(p) ==
  /\ cpc[p] = "collect"
  /\ cache' = WriteAll(cache, TmpFile(p), Partial)
  /\ Goto(p, "collecting")
  /\ UNCHANGED <<ckey, cpaths, cuuid, chad, nextUuid, cret, inserted, crashed>>
  /\ CFrame

\* ... and completes it
TryInsertCollectClose(p) ==
  /\ cpc[p] = "collecting"
  /\ cache' = IF Exists(cache, TmpFile(p))
              THEN WriteAll(cache, TmpFile(p), Archive(ckey[p], cpaths[p]))
              ELSE cache
  /\ Goto(p, "exists")
  /\ UNCHANGED <<ckey, cpaths, cuuid, chad, nextUuid, cret, inserted, crashed>>
  /\ CFrame

\* try_insert: if os.path.exists(tarfile)
TryInsertExists(p) ==
  /\ cpc[p] = "exists"
  /\ Goto(p, IF Exists(cache, TarFile(p)) THEN "unlink" ELSE "rename")
  /\ UNCHANGED <<cache, ckey, cpaths, cuuid, chad, nextUuid, cret, inserted, crashed>>
  /\ CFrame

\* try_insert: os.unlink(tarfile), which raises when the file is gone
TryInsertUnlink(p) ==
  /\ cpc[p] = "unlink"
  /\ IF IsFile(cache, TarFile(p))
     THEN /\ cache' = Unlink(cache, TarFile(p))
          /\ Goto(p, "rename")
          /\ UNCHANGED <<ckey, cpaths, cuuid, chad, cret>>
     ELSE /\ Returned("try_insert", ckey[p], Raised)
          /\ Goto(p, "idle")
          /\ Forget(p)
          /\ UNCHANGED cache
  /\ UNCHANGED <<nextUuid, inserted, crashed>>
  /\ CFrame

\* try_insert: os.rename(tarfile_tmp, tarfile)
TryInsertRename(p) ==
  /\ cpc[p] = "rename"
  /\ IF IsFile(cache, TmpFile(p))
     THEN /\ cache' = Rename(cache, TmpFile(p), TarFile(p))
          /\ Returned("try_insert", ckey[p], None)
          /\ inserted' = inserted \cup {ckey[p]}
          /\ crashed' = IF crashed.key = ckey[p] THEN NoCrash ELSE crashed
     ELSE /\ Returned("try_insert", ckey[p], Raised)
          /\ UNCHANGED <<cache, inserted, crashed>>
  /\ Goto(p, "idle")
  /\ Forget(p)
  /\ UNCHANGED nextUuid
  /\ CFrame

\* The process is killed inside a call.
Kill(p) ==
  /\ cpc[p] # "idle"
  /\ crashed' = IF cpc[p] \in {"exists", "unlink", "rename"}
                THEN [key |-> ckey[p], had |-> chad[p]]
                ELSE crashed
  /\ Goto(p, "idle")
  /\ Forget(p)
  /\ UNCHANGED <<cache, nextUuid, cret, inserted>>
  /\ CFrame

\* has(cache_key)
Has(p, k) ==
  /\ cpc[p] = "idle"
  /\ Returned("has", k, has(cache, k))
  /\ UNCHANGED <<cache, cpc, ckey, cpaths, cuuid, chad, nextUuid, inserted, crashed>>
  /\ CFrame

\* use_cached_files: if os.path.exists(tarfile) ... else: return None
UseCachedFilesExists(p, k) ==
  /\ cpc[p] = "idle"
  /\ IF Exists(cache, cache_file_for_key(compress, k))
     THEN /\ Goto(p, "extract")
          /\ ckey' = [ckey EXCEPT ![p] = k]
          /\ UNCHANGED cret
     ELSE /\ Returned("use_cached_files", k, None)
          /\ UNCHANGED <<cpc, ckey>>
  /\ UNCHANGED <<cache, cpaths, cuuid, chad, nextUuid, inserted, crashed>>
  /\ CFrame

\* use_cached_files: artifact.extract(); return artifact
UseCachedFilesExtract(p) ==
  /\ cpc[p] = "extract"
  /\ Returned("use_cached_files", ckey[p],
              IF extract_raises(cache, TarFile(p)) THEN Raised ELSE cache[TarFile(p)])
  /\ Goto(p, "idle")
  /\ Forget(p)
  /\ UNCHANGED <<cache, nextUuid, inserted, crashed>>
  /\ CFrame

\* delete(cache_key)
Delete(p, k) ==
  /\ cpc[p] = "idle"
  /\ cache' = delete(cache, k)
  /\ inserted' = inserted \ {k}
  /\ Returned("delete", k, None)
  /\ UNCHANGED <<cpc, ckey, cpaths, cuuid, chad, nextUuid, crashed>>
  /\ CFrame

CacheStep(p, keys, pathsets) ==
  \/ \E k \in keys, ps \in pathsets : TryInsertMkdir(p, k, ps)
  \/ TryInsertCollectOpen(p)
  \/ TryInsertCollectClose(p)
  \/ TryInsertExists(p)
  \/ TryInsertUnlink(p)
  \/ TryInsertRename(p)
  \/ Kill(p)
  \/ \E k \in keys : Has(p, k)
  \/ \E k \in keys : UseCachedFilesExists(p, k)
  \/ UseCachedFilesExtract(p)
  \/ \E k \in keys : Delete(p, k)

\* Concurrent processes, on two keys stored in the same directory.
ConcurrentKeys == {CacheKey("t1", <<"a", "1">>), CacheKey("t1", <<"b", "2">>)}

NextCache == \E p \in CacheProcs : CacheStep(p, ConcurrentKeys, PathSets)

\* The processes share a writable cache.
InitCacheWritable == InitCache /\ ~read_only

SpecCache == InitCacheWritable /\ [][NextCache]_vars

\* One process that can be killed and started again.
NextCacheCrash == CacheStep("p1", ArtifactKeys, PathSets)

SpecCacheCrash == InitCache /\ [][NextCacheCrash]_vars

\* C8: has(key) tells whether the key's artifact is present: true after a
\* try_insert(key, paths) that completed with no delete(key) since, false
\* for a key never inserted or deleted.
C8_HasIsPresence == cret.op = "has" => cret.ret = cret.stored

ArchivesOf(k) == {Archive(k, ps) : ps \in PathSets}

\* C9: whatever the interleaving of try_insert, has and use_cached_files of
\* concurrent processes, the file at the final storage path of a key is
\* absent or a complete archive written by a try_insert of that key, and
\* use_cached_files never extracts a partly written archive.
C9_FinalPathAbsentOrComplete ==
  /\ \A k \in ArtifactKeys :
       Exists(cache, cache_file_for_key(compress, k))
       => cache[cache_file_for_key(compress, k)] \in ArchivesOf(k)
  /\ cret.op = "use_cached_files"
       => cret.ret \in ArchivesOf(cret.key) \cup {None, Raised}

C9_Witness ==
  \E p, q \in CacheProcs :
    /\ p # q
    /\ cpc[p] = "collecting" /\ cache[TmpFile(p)] = Partial
    /\ cpc[q] = "extract" /\ ckey[q] = ckey[p]
    /\ Exists(cache, TarFile(p))
    /\ cache[TarFile(p)] \in ArchivesOf(ckey[p])

\* Two processes, each running try_insert for one and the same key, on a
\* cache root that an earlier run may have left an archive of the key in.
SharedKey == CacheKey("t1", <<"a", "1">>)

StoredBefore(paths) ==
  WriteAll(safe_mkdir_for(LocalArtifactCacheInit(<<>>), cache_file_for_key(TRUE, SharedKey)),
           cache_file_for_key(TRUE, SharedKey), Archive(SharedKey, paths))

InitCacheStored ==
  /\ disk = <<>>
  /\ calls = <<>>
  /\ lastWritten = [id \in Ids |-> None]
  /\ ProcsIdle
  /\ GraphIdle
  /\ KeysIdle
  /\ RegistryIdle
  /\ SnapshotterIdle
  /\ cache \in {LocalArtifactCacheInit(<<>>)} \cup {StoredBefore(ps) : ps \in PathSets}
  /\ compress = TRUE
  /\ read_only = FALSE
  /\ cpc = [p \in CacheProcs |-> "idle"]
  /\ ckey = [p \in CacheProcs |-> NoKey]
  /\ cpaths = [p \in CacheProcs |-> {}]
  /\ cuuid = [p \in CacheProcs |-> 0]
  /\ chad = [p \in CacheProcs |-> FALSE]
  /\ nextUuid = 0
  /\ cret = [op |-> "none", key |-> NoKey, ret |-> None, stored |-> FALSE, retry |-> FALSE]
  /\ inserted = IF Exists(cache, cache_file_for_key(TRUE, SharedKey)) THEN {SharedKey} ELSE {}
  /\ crashed = NoCrash

TryInsertStep(p, keys, pathsets) ==
  \/ \E k \in keys, ps \in pathsets : TryInsertMkdir(p, k, ps)
  \/ TryInsertCollectOpen(p)
  \/ TryInsertCollectClose(p)
  \/ TryInsertExists(p)
  \/ TryInsertUnlink(p)
  \/ TryInsertRename(p)

NextCacheStored == \E p \in CacheProcs : TryInsertStep(p, {SharedKey}, PathSets)

SpecCacheStored == InitCacheStored /\ [][NextCacheStored]_vars

\* The temporary files of the try_insert calls made so far.
TmpFilesLeft ==
  {f \in DOMAIN cache :
     \E u \in 1..nextUuid : f = tmp_name(cache_file_for_key(compress, SharedKey), u)}

C11_StoragePathPerKey ==
  /\ \A k \in ArtifactKeys :
       cache_file_for_key(compress, k)
         = PathJoin(PathJoin(CacheRoot, k.id),
                    HashStr(k.hash) \o (IF compress THEN ".tar.gz" ELSE ".tar"))
  /\ \A k1, k2 \in ArtifactKeys :
       k1 # k2 => cache_file_for_key(compress, k1) # cache_file_for_key(compress, k2)

\* C12: use_cached_files(key) returns the archive of key exactly when a
\* try_insert(key, paths) has completed and no delete(key) followed it, and
\* returns None otherwise.
C12_UseCachedFilesIffStored ==
  cret.op = "use_cached_files"
  => /\ cret.stored => cret.ret \in ArchivesOf(cret.key)
     /\ ~cret.stored => cret.ret = None

\* C13: once delete(key) has returned, the storage of key is gone: nothing
\* is left at its final path, so has(key) is false and use_cached_files(key)
\* finds nothing.
C13_DeleteRemovesStorage ==
  cret.op = "delete"
  => /\ ~Exists(cache, cache_file_for_key(compress, cret.key))
     /\ ~has(cache, cret.key)

\* C14: on a read-only cache try_insert is a no-op: the cache directory
\* stays as the constructor left it and no key becomes stored.
C14_ReadOnlyTryInsertNoOp ==
  read_only => /\ cache = LocalArtifactCacheInit(<<>>)
               /\ inserted = {}

-----------------------------------------------------------------------------
(* One process on a cache directory whose stored archives can go bad.      *)

\* The bytes of a stored archive are damaged outside of pants.
CorruptArchive(k) ==
  /\ IsFile(cache, cache_file_for_key(compress, k))
  /\ cache[cache_file_for_key(compress, k)] # Corrupt
  /\ cache' = WriteAll(cache, cache_file_for_key(compress, k), Corrupt)
  /\ UNCHANGED <<cpc, ckey, cpaths, cuuid, chad, nextUuid, cret, inserted, crashed>>
  /\ CFrame

NextCacheCorrupt ==
  \/ CacheStep("p1", ConcurrentKeys, PathSets)
  \/ \E k \in ConcurrentKeys : CorruptArchive(k)

SpecCacheCorrupt == InitCache /\ [][NextCacheCorrupt]_vars

\* C15: a use_cached_files(key) whose extraction fails is a miss: it
\* returns None instead of raising, and the entry that failed is deleted.
C15_ExtractFailureIsMiss ==
  cret.op = "use_cached_files" /\ cret.ret \notin ArchivesOf(cret.key)
  => /\ cret.ret = None
     /\ ~Exists(cache, cache_file_for_key(compress, cret.key))

-----------------------------------------------------------------------------
(* One BuildFileParser and one BuildGraph over a repository of two         *)
(* directories: x/BUILD declares a and b, y/BUILD declares c.  A step of   *)
(* inject_spec_closure_into_build_graph is what one level of the recursion *)
(* does between two calls of itself; an exception unwinds every level.     *)

\* A dependency spec as written in a BUILD file of directory from_path.
SpecTo(from_path, address) ==
  IF address.spec_path = from_path
  THEN <<":", address.target_name>>
  ELSE SpecOfAddress(address)

\* Dependency lists of up to two distinct targets, in either order.
DepLists(from_path) ==
  {<<>>}
  \cup {<<SpecTo(from_path, t)>> : t \in Targets}
  \cup {<<SpecTo(from_path, tu[1]), SpecTo(from_path, tu[2])>> :
          tu \in {pair \in Targets \X Targets : pair[1] # pair[2]}}

Declaration(name, deps, extra) ==
  TargetCall(<<>>, ("name" :> name)
                   @@ (IF deps = <<>> THEN <<>> ELSE "dependencies" :> deps)
                   @@ extra)

\* What is special about the repository: nothing, a target whose constructor
\* raises, a target that exposes a traversable spec, a target not declared.
\* (resources_a_bogus_c: a exposes x:b while the constructor of c raises)
Variations ==
  {"plain", "bogus_a", "bogus_c", "resources_a", "missing_c", "resources_a_bogus_c"}

ExtraOf(variation, name) ==
  IF variation = "bogus_" \o name THEN "bogus" :> TRUE
  ELSE IF variation = "resources_a_bogus_c" /\ name = "c" THEN "bogus" :> TRUE
  ELSE IF variation = "resources_a_bogus_c" /\ name = "a"
       THEN "resources" :> <<<<"x", ":", "b">>>>
  ELSE IF variation = "resources_" \o name
       THEN "resources" :> <<<<"y", ":", "c">>>>
       ELSE <<>>

Repository(da, db, dc, variation) ==
  (BuildFile("x") :> <<Declaration("a", da, ExtraOf(variation, "a")),
                       Declaration("b", db, ExtraOf(variation, "b"))>>)
  @@ (BuildFile("y") :> IF variation = "missing_c" THEN <<>>
                        ELSE <<Declaration("c", dc, ExtraOf(variation, "c"))>>)

Repositories(variations) ==
  {Repository(da, db, dc, v) :
     da \in DepLists("x"), db \in DepLists("x"),
     dc \in DepLists("y"), v \in variations}

InitParser(variations) ==
  /\ disk = <<>>
  /\ calls = <<>>
  /\ lastWritten = [id \in Ids |-> None]
  /\ ProcsIdle
  /\ CacheIdle
  /\ build_files \in Repositories(variations)
  /\ parser = BuildFileParserInit
  /\ graph = <<>>
  /\ stack = <<>>
  /\ addresses_already_closed = {}
  /\ gcall = NoCall
  /\ ncalls = 0
  /\ made = [a \in Targets |-> 0]
  /\ injected_times = [a \in Targets |-> 0]
  /\ ginj = NoInjection
  /\ pcall = NoParse
  /\ KeysIdle
  /\ RegistryIdle
  /\ SnapshotterIdle

GFrame == UNCHANGED <<ivars, cvars, kvars, rvars, svars, build_files, pcall>>

Frame(spec) == [spec |-> spec, address |-> NoAddress, phase |-> 0, i |-> 1]

Top == stack[Len(stack)]

SetTop(f) == [stack EXCEPT ![Len(stack)] = f]

TotalMade == made[BuildFileAddress(BuildFile("x"), "a")]
             + made[BuildFileAddress(BuildFile("x"), "b")]
             + made[BuildFileAddress(BuildFile("y"), "c")]

\* The call returns to whoever called the parser.
Finished(ret) == gcall' = [gcall EXCEPT !.ret = ret]

\* An exception leaves every level of the recursion.
Raise(err) ==
  /\ stack' = <<>>
  /\ Finished(err)

\* The innermost level returns.
Return ==
  /\ stack' = SubSeq(stack, 1, Len(stack) - 1)
  /\ IF Len(stack) = 1 THEN Finished("ok") ELSE UNCHANGED gcall

\* The innermost level goes on to its next phase, or returns after the last.
Advance ==
  IF Top.phase < Len(Phases)
  THEN /\ stack' = SetTop([Top EXCEPT !.phase = @ + 1, !.i = 1])
       /\ UNCHANGED gcall
  ELSE Return

\* The innermost level calls inject_spec_closure_into_build_graph(spec, ...).
Recurse(spec) ==
  IF Len(stack) >= RecursionLimit
  THEN Raise("RuntimeError")
  ELSE /\ stack' = Append(SetTop([Top EXCEPT !.i = @ + 1]), Frame(spec))
       /\ UNCHANGED gcall

\* A client calls parser.inject_spec_closure_into_build_graph(spec, graph).
CallInject(spec) ==
  /\ stack = <<>>
  /\ ncalls < MaxCalls
  /\ stack' = <<Frame(spec)>>
  /\ addresses_already_closed' = {}
  /\ gcall' = [op |-> "inject", spec |-> spec, ret |-> "running",
               graph0 |-> graph, made0 |-> TotalMade]
  /\ ncalls' = ncalls + 1
  /\ UNCHANGED <<parser, graph, made, injected_times, ginj>>
  /\ GFrame

\* parse_spec(spec); populate_..._for_address(address); the test of line 173
InjectEnter ==
  /\ stack # <<>>
  /\ Top.phase = 0
  /\ LET p == parse_spec(Top.spec, NoPath)
         address == BuildFileAddress(BuildFile(p.spec_path), p.target_name)
         pop == populate_closure(build_files, parser, address, {}, Len(stack) + 1)
     IN  IF p.raised # NoError
         THEN /\ Raise(p.raised)
              /\ UNCHANGED <<parser, addresses_already_closed>>
         ELSE /\ parser' = pop.ps
              /\ IF pop.raised # NoError
                 THEN /\ Raise(pop.raised)
                      /\ UNCHANGED addresses_already_closed
                 ELSE IF should_inject(graph, addresses_already_closed, address)
                 THEN /\ addresses_already_closed' = addresses_already_closed \cup {address}
                      /\ stack' = SetTop([Top EXCEPT !.address = address, !.phase = 1])
                      /\ UNCHANGED gcall
                 ELSE /\ Return
                      /\ UNCHANGED addresses_already_closed
  /\ UNCHANGED <<graph, ncalls, made, injected_times, ginj>>
  /\ GFrame

ProxyOfTop == parser.target_proxy_by_address[Top.address]

\* for dep_address in target_proxy.dependency_addresses: recurse
InjectDependencies ==
  /\ stack # <<>>
  /\ Top.phase > 0
  /\ Phases[Top.phase] = "dependencies"
  /\ LET deps == dependency_addresses(ProxyOfTop)
     IN  IF Top.i <= Len(deps) THEN Recurse(SpecOfAddress(deps[Top.i])) ELSE Advance
  /\ UNCHANGED <<parser, graph, addresses_already_closed, ncalls, made, injected_times, ginj>>
  /\ GFrame

\* The addresses whose levels are on the stack, the innermost included.
Visiting == {stack[j].address : j \in 1..Len(stack)}

\* target = target_proxy.to_target(build_graph);
\* build_graph.inject_target(target, dependencies=...)
InjectTarget ==
  /\ stack # <<>>
  /\ Top.phase > 0
  /\ Phases[Top.phase] = "target"
  /\ IF to_target_raises(ProxyOfTop)
     THEN /\ Raise("TypeError")
          /\ UNCHANGED <<graph, made, injected_times, ginj>>
     ELSE /\ graph' = inject_target(graph, Top.address, dependency_addresses(ProxyOfTop))
          /\ made' = [made EXCEPT ![Top.address] = @ + 1]
          /\ injected_times' = [injected_times EXCEPT ![Top.address] = @ + 1]
          /\ ginj' = [address |-> Top.address,
                      missing |-> {d \in graph'[Top.address] : ~contains_address(graph, d)},
                      visiting |-> Visiting]
          /\ Advance
  /\ UNCHANGED <<parser, addresses_already_closed, ncalls>>
  /\ GFrame

\* for traversable_spec in target.traversable_specs: recurse
InjectTraversables ==
  /\ stack # <<>>
  /\ Top.phase > 0
  /\ Phases[Top.phase] = "traversables"
  /\ LET specs == traversable_specs(ProxyOfTop)
     IN  IF Top.i <= Len(specs) THEN Recurse(specs[Top.i]) ELSE Advance
  /\ UNCHANGED <<parser, graph, addresses_already_closed, ncalls, made, injected_times, ginj>>
  /\ GFrame

\* A client calls parser.populate_target_proxy_transitive_closure_for_address.
CallPopulate(address) ==
  /\ stack = <<>>
  /\ ncalls < MaxCalls
  /\ LET pop == populate_closure(build_files, parser, address, {}, 1)
     IN  /\ parser' = pop.ps
         /\ gcall' = [op |-> "populate", spec |-> SpecOfAddress(address),
                      ret |-> IF pop.raised = NoError THEN "ok" ELSE pop.raised,
                      graph0 |-> graph, made0 |-> TotalMade]
  /\ ncalls' = ncalls + 1
  /\ UNCHANGED <<graph, stack, addresses_already_closed, made, injected_times, ginj>>
  /\ GFrame

InjectStep ==
  \/ InjectEnter
  \/ InjectDependencies
  \/ InjectTarget
  \/ InjectTraversables

NextGraph ==
  \/ \E t \in Targets : CallInject(SpecOfAddress(t))
  \/ InjectEnter
  \/ InjectDependencies
  \/ InjectTarget
  \/ InjectTraversables

InitGraph == InitParser(Variations)

SpecGraph == InitGraph /\ [][NextGraph]_vars

\* The TargetProxies the BUILD files declare, whether parsed yet or not.
DeclaredProxies ==
  UNION {{TargetProxy(f, build_files[f][i]) :
            i \in {j \in 1..Len(build_files[f]) : ~TargetProxy_raises(build_files[f][j])}} :
           f \in DOMAIN build_files}

DeclaredDependencies(address) ==
  UNION {{dependency_addresses(p)[i] : i \in 1..Len(p.dependencies)} :
           p \in {q \in DeclaredProxies : q.address = address}}

RECURSIVE Reachable(_)
Reachable(addresses) ==
  LET further == addresses \cup UNION {DeclaredDependencies(a) : a \in addresses}
  IN  IF further = addresses THEN addresses ELSE Reachable(further)

\* The addresses reachable from address through declared dependency specs.
DeclaredClosure(address) == Reachable({address})

\* The address a top-level call resolves its spec to.
AddressOfCall ==
  BuildFileAddress(BuildFile(parse_spec(gcall.spec, NoPath).spec_path),
                   parse_spec(gcall.spec, NoPath).target_name)

Returned_ok(op) == gcall.op = op /\ gcall.ret = "ok"

EdgesPointAtNodes == \A n \in DOMAIN graph : graph[n] \subseteq DOMAIN graph

\* C16: after every successful inject_spec_closure(s, G), G has a node for
\* address(s) and for every address reachable from it through declared
\* dependency specs, and every edge of G points at a node of G.
C16_SuccessfulInjectionHasClosure ==
  Returned_ok("inject")
  => /\ DeclaredClosure(AddressOfCall) \subseteq DOMAIN graph
     /\ EdgesPointAtNodes

\* C17 as stated: when inject_target(t, dependencies) is called, every
\* address in dependencies is already a node of the graph.
C17_DependenciesAlreadyNodes == ginj.missing = {}

\* C17: when inject_target(t, dependencies) is called, every address in
\* dependencies is already a node of the graph, or is t itself or an
\* address whose injection is still under way further up the traversal,
\* from which t was reached (a cycle through t).
C17_DependenciesNodesOrVisiting == ginj.missing \subseteq ginj.visiting

C17_Witness ==
  /\ ginj.address # NoAddress
  /\ ginj.missing # {}
  /\ ginj.address \notin ginj.missing
  /\ \E d \in DOMAIN graph \ {ginj.address} :
       d \in graph[ginj.address] /\ d \notin ginj.missing

\* C19: over any sequence of inject_spec_closure calls on one graph with one
\* parser, each address is made into a Target and injected at most once,
\* and exactly once if it is in the closure of a spec injected successfully.
C19_InjectedExactlyOnce ==
  /\ \A t \in Targets : made[t] <= 1 /\ injected_times[t] <= 1
  /\ Returned_ok("inject")
     => \A t \in DeclaredClosure(AddressOfCall) :
          made[t] = 1 /\ injected_times[t] = 1

\* C20: inject_spec_closure run again is idempotent: with the closure of the
\* spec in the graph already, the call changes no node and no edge and makes
\* no Target; after an injection that was aborted part-way every edge of the
\* nodes it injected points at a node, and no node is ever injected again.
C20_RerunIsIdempotent ==
  /\ Returned_ok("inject") /\ DeclaredClosure(AddressOfCall) \subseteq DOMAIN gcall.graph0
     => graph = gcall.graph0 /\ TotalMade = gcall.made0
  /\ gcall.op = "inject" /\ gcall.ret \notin {"running", "ok"} => EdgesPointAtNodes
  /\ \A t \in Targets : injected_times[t] <= 1

\* The target calls of the BUILD files of address's directory that declare it.
DeclarationsOf(address) ==
  UNION {{build_files[f][i] :
            i \in {j \in 1..Len(build_files[f]) :
                     /\ "name" \in DOMAIN build_files[f][j].kwargs
                     /\ build_files[f][j].kwargs["name"] = address.target_name}} :
           f \in {g \in DOMAIN build_files : g.spec_path = address.spec_path}}

\* The specs a target call lists under a keyword.
SpecsOf(call, key) ==
  IF key \in DOMAIN call.kwargs
  THEN {call.kwargs[key][i] : i \in 1..Len(call.kwargs[key])}
  ELSE {}

\* The address a spec written in directory from_path names.
AddressOfSpec(from_path, spec) ==
  CHOOSE t \in Targets : spec \in {SpecTo(from_path, t), SpecOfAddress(t)}

\* The addresses address is declared to depend on.
DeclaredEdges(address) ==
  {AddressOfSpec(address.spec_path, s) :
     s \in UNION {SpecsOf(c, "dependencies") : c \in DeclarationsOf(address)}}

\* The addresses the target of address exposes as traversable specs.
TraversedEdges(address) ==
  {AddressOfSpec(address.spec_path, s) :
     s \in UNION {SpecsOf(c, "resources") : c \in DeclarationsOf(address)}}

RECURSIVE ReachableByTraversal(_)
ReachableByTraversal(addresses) ==
  LET further == addresses
                 \cup UNION {DeclaredEdges(a) \cup TraversedEdges(a) : a \in addresses}
  IN  IF further = addresses THEN addresses ELSE ReachableByTraversal(further)

\* The addresses a BUILD file declares.
DeclaredIn(f) ==
  {BuildFileAddress(f, build_files[f][i].kwargs["name"]) :
     i \in {j \in 1..Len(build_files[f]) : "name" \in DOMAIN build_files[f][j].kwargs}}

\* C21: a spec injected successfully into an empty graph gives exactly the
\* closure: the nodes are the addresses reachable from address(spec) through
\* declared dependencies and traversable specs, the edges of a node are its
\* declared dependencies, and every target declared in a BUILD file of a
\* node's directory has been parsed, whether it became a node or not.
C21_ExactlyTheClosure ==
  Returned_ok("inject") /\ gcall.graph0 = <<>>
  => /\ DOMAIN graph = ReachableByTraversal({AddressOfCall})
     /\ \A n \in DOMAIN graph : graph[n] = DeclaredEdges(n)
     /\ \A f \in DOMAIN build_files :
          f.spec_path \in {n.spec_path : n \in DOMAIN graph}
          => DeclaredIn(f) \subseteq DOMAIN parser.target_proxy_by_address

C21_Witness ==
  /\ Returned_ok("inject") /\ gcall.graph0 = <<>>
  /\ AddressOfCall = BuildFileAddress(BuildFile("x"), "a")
  /\ graph = (BuildFileAddress(BuildFile("x"), "a") :> {BuildFileAddress(BuildFile("x"), "b")})
             @@ (BuildFileAddress(BuildFile("x"), "b") :> {})
  /\ BuildFileAddress(BuildFile("y"), "c") \notin DOMAIN parser.target_proxy_by_address

-----------------------------------------------------------------------------
(* The two closure functions on repositories whose every target is         *)
(* declared and can be constructed, with any cycles among a, b and c.     *)

NextClosure ==
  \/ \E t \in Targets : CallInject(SpecOfAddress(t))
  \/ InjectEnter
  \/ InjectDependencies
  \/ InjectTarget
  \/ InjectTraversables
  \/ \E t \in Targets : CallPopulate(t)

InitClosure == InitParser({"plain"})

SpecClosure == InitClosure /\ [][NextClosure]_vars

\* Steps a level has left in a list it walks from index i: two for each item
\* (the call, and the first step of the level called), one to go on.
WorkOfList(len, i) == 2 * (len - i + 1) + 1

WorkOfPhase(target_proxy, phase, i) ==
  IF Phases[phase] = "dependencies" THEN WorkOfList(Len(target_proxy.dependencies), i)
  ELSE IF Phases[phase] = "traversables"
       THEN WorkOfList(Len(traversable_specs(target_proxy)), i)
       ELSE 1

RECURSIVE WorkFrom(_, _)
WorkFrom(target_proxy, phase) ==
  IF phase > Len(Phases) THEN 0
  ELSE WorkOfPhase(target_proxy, phase, 1) + WorkFrom(target_proxy, phase + 1)

\* Steps a level has left, not counting the levels it has yet to decide to run.
WorkOfFrame(f) ==
  IF f.phase = 0 THEN 1
  ELSE WorkOfPhase(parser.target_proxy_by_address[f.address], f.phase, f.i)
       + WorkFrom(parser.target_proxy_by_address[f.address], f.phase + 1)

\* Steps of the level that injects address, from its first phase on.
LevelWork(address) ==
  IF \E p \in DeclaredProxies : p.address = address
  THEN WorkFrom(CHOOSE p \in DeclaredProxies : p.address = address, 1)
  ELSE 0

RECURSIVE SumOver(_, _)
SumOver(F(_), S) ==
  IF S = {} THEN 0
  ELSE LET x == CHOOSE y \in S : TRUE IN F(x) + SumOver(F, S \ {x})

\* A bound on the steps the injection under way can still take: what the
\* levels on the stack have left, and a whole level for every address not
\* visited yet.
Remaining ==
  SumOver(LAMBDA j : WorkOfFrame(stack[j]), 1..Len(stack))
  + SumOver(LevelWork, Targets \ addresses_already_closed)

\* C18: inject_spec_closure and populate_transitive_closure return for
\* every repository, with a target that depends on itself and with targets
\* that depend on each other inside one BUILD file or across BUILD files,
\* and a cycle makes neither of them raise: no call raises, a level of the
\* recursion always has a step to take (its first, or one of its phases),
\* and every step brings the bound Remaining down.
C18_ClosuresTerminate ==
  /\ [](gcall.ret \in {NoError, "running", "ok"})
  /\ [](stack # <<>> => \/ Top.phase = 0
                        \/ ENABLED InjectDependencies
                        \/ ENABLED InjectTarget
                        \/ ENABLED InjectTraversables)
  /\ [][InjectStep => Remaining' < Remaining]_vars

C18_Witness ==
  /\ Returned_ok("inject")
  /\ stack = <<>>
  /\ \E n \in DOMAIN graph : n \in graph[n]
  /\ \E n, m \in DOMAIN graph :
       /\ n.spec_path # m.spec_path
       /\ m \in graph[n] /\ n \in graph[m]

RECURSIVE ReachableByDependencies(_)
ReachableByDependencies(addresses) ==
  LET further == addresses \cup UNION {DeclaredEdges(a) : a \in addresses}
  IN  IF further = addresses THEN addresses ELSE ReachableByDependencies(further)

\* The family of build_file has been evaluated: every file of it.
FamilyEvaluated(build_file) ==
  /\ build_file \in parser.added_build_file_families
  /\ \A i \in 1..Len(family(build_files, build_file)) :
       family(build_files, build_file)[i] \in parser.added_build_files

\* C22: after a successful populate_transitive_closure(address) the family
\* of every address of the declared dependency closure has been evaluated
\* and a TargetProxy is recorded for each of them, no Target has been made
\* and the build graph is what it was.
C22_PopulateOnlyParses ==
  Returned_ok("populate")
  => /\ \A a \in ReachableByDependencies({AddressOfCall}) :
          /\ FamilyEvaluated(BuildFileOf(a))
          /\ a \in DOMAIN parser.target_proxy_by_address
          /\ parser.target_proxy_by_address[a].address = a
     /\ graph = gcall.graph0
     /\ TotalMade = gcall.made0

C22_Witness ==
  /\ Returned_ok("populate")
  /\ ncalls = 1
  /\ AddressOfCall.spec_path = "x"
  /\ BuildFileAddress(BuildFile("y"), "c") \in ReachableByDependencies({AddressOfCall})
  /\ BuildFileAddress(BuildFile("y"), "c") \in DOMAIN parser.target_proxy_by_address
  /\ graph = <<>>

-----------------------------------------------------------------------------
(* Traversable specs, constructors that raise and targets not declared,    *)
(* on the repositories of SpecGraph.                                       *)

\* The targets the call under way, or the last call, has injected.
InjectedByCall == DOMAIN graph \ DOMAIN gcall.graph0

\* C32: after a successful inject_spec_closure the graph has a node for each
\* traversable spec of every target the call injected, and for every address
\* reachable from it through declared dependency specs.
C32_TraversablesInjectedWithClosure ==
  Returned_ok("inject")
  => \A n \in InjectedByCall :
       \A t \in TraversedEdges(n) : ReachableByDependencies({t}) \subseteq DOMAIN graph

\* The addresses whose declaration makes to_target raise.
FailingTargets == {p.address : p \in {q \in DeclaredProxies : to_target_raises(q)}}

\* C33: when to_target raises, inject_spec_closure raises the same to its
\* caller, the failing target is no node of the graph, and the nodes injected
\* before the failure are still nodes, every edge of the graph pointing at a
\* node.
C33_FailureLeavesValidGraph ==
  /\ FailingTargets \cap DOMAIN graph = {}
  /\ gcall.op = "inject" /\ gcall.ret = "TypeError"
     => /\ DOMAIN gcall.graph0 \subseteq DOMAIN graph
        /\ EdgesPointAtNodes

\* The addresses no BUILD file declares.
Undeclared == Targets \ UNION {DeclaredIn(f) : f \in DOMAIN build_files}

\* C34: an inject_spec_closure call for a spec whose declared dependency
\* closure holds an address that its BUILD file does not declare never
\* returns normally, makes no Target and leaves the graph as it was when the
\* call began; it ends with the AssertionError of populate.
C34_UndeclaredTargetFailsFirst ==
  gcall.op = "inject" /\ ReachableByDependencies({AddressOfCall}) \cap Undeclared # {}
  => /\ gcall.ret \in {"running", "AssertionError"}
     /\ graph = gcall.graph0
     /\ TotalMade = gcall.made0
     /\ stack # <<>> => Len(stack) = 1 /\ Top.phase = 0

\* The second call, on a graph the first call filled, has failed for a target
\* that a dependency of its spec names and no BUILD file declares.
C34_Witness ==
  /\ gcall.op = "inject" /\ gcall.ret = "AssertionError"
  /\ gcall.graph0 # <<>>
  /\ AddressOfCall \notin Undeclared
  /\ ReachableByDependencies({AddressOfCall}) \cap Undeclared # {}
  /\ DeclaredEdges(AddressOfCall) \cap DOMAIN gcall.graph0 # {}

-----------------------------------------------------------------------------
(* One BuildFileParser over a directory x with the files BUILD and, in     *)
(* some repositories, BUILD.extra, whose target calls may be invalid or    *)
(* declare a name twice.  A client calls parse_build_file and              *)
(* parse_build_file_family; every action is one whole call.                *)
(* registered_target_proxies is a set of objects hashed by identity, whose *)
(* iteration order is arbitrary: the order of the calls in the file stands *)
(* for it, and every evaluation sees each file in any order.               *)

\* Target calls a BUILD file of x can hold: a with a dependency, a without,
\* b, a call with no name, one with a positional argument, one with
\* build_file.
Decls ==
  <<Declaration("a", <<<<":", "b">>>>, <<>>),
    Declaration("a", <<>>, <<>>),
    Declaration("b", <<>>, <<>>),
    TargetCall(<<>>, <<>>),
    TargetCall(<<"a">>, "name" :> "a"),
    TargetCall(<<>>, ("name" :> "a") @@ ("build_file" :> "BUILD"))>>

\* The contents of a file of up to n calls, any of them more than once; the
\* order they are listed in here is of no account.
DeclSeqs(n) ==
  UNION {{[i \in 1..k |-> Decls[ix[i]]] :
            ix \in {jx \in [1..k -> 1..Len(Decls)] :
                      \A i \in 1..(k - 1) : jx[i] <= jx[i + 1]}} :
           k \in 0..n}

Sibling(build_file) == [spec_path |-> build_file.spec_path, name |-> "BUILD.extra"]

ParseRepositories ==
  {BuildFile("x") :> main : main \in DeclSeqs(MaxDecls)}
  \cup {(BuildFile("x") :> main) @@ (Sibling(BuildFile("x")) :> extra) :
          main \in DeclSeqs(MaxDecls), extra \in DeclSeqs(1)}

ParsedFiles == {BuildFile("x"), Sibling(BuildFile("x"))}

\* The sequences that hold the items of seq in some order.
Orders(seq) ==
  {[i \in 1..Len(seq) |-> seq[pi[i]]] :
     pi \in {q \in [1..Len(seq) -> 1..Len(seq)] :
               \A i, j \in 1..Len(seq) : q[i] = q[j] => i = j}}

\* The files, each with its calls in some order.
Reorderings(files) ==
  {fs \in [DOMAIN files -> UNION {Orders(files[f]) : f \in DOMAIN files}] :
     \A f \in DOMAIN files : fs[f] \in Orders(files[f])}

InitParse ==
  /\ disk = <<>>
  /\ calls = <<>>
  /\ lastWritten = [id \in Ids |-> None]
  /\ ProcsIdle
  /\ CacheIdle
  /\ build_files \in ParseRepositories
  /\ parser = BuildFileParserInit
  /\ graph = <<>>
  /\ stack = <<>>
  /\ addresses_already_closed = {}
  /\ gcall = NoCall
  /\ ncalls = 0
  /\ made = [a \in Targets |-> 0]
  /\ injected_times = [a \in Targets |-> 0]
  /\ ginj = NoInjection
  /\ pcall = NoParse
  /\ KeysIdle
  /\ RegistryIdle
  /\ SnapshotterIdle

PFrame ==
  UNCHANGED <<ivars, cvars, kvars, rvars, svars, build_files, graph, stack, addresses_already_closed,
              made, injected_times, ginj>>

Parsed(op, build_file, r) ==
  /\ parser' = r.ps
  /\ pcall' = [op |-> op, build_file |-> build_file,
               ret |-> IF r.raised = NoError THEN "ok" ELSE r.raised,
               executed |-> r.executed, before |-> parser]
  /\ gcall' = NoCall
  /\ ncalls' = ncalls + 1

\* A client calls parser.parse_build_file(build_file).
ParseBuildFile(build_file) ==
  /\ ncalls < MaxCalls
  /\ \E fs \in Reorderings(build_files) :
       Parsed("parse_build_file", build_file, parse_build_file(fs, parser, build_file))
  /\ PFrame

\* A client calls parser.parse_build_file_family(build_file).
ParseBuildFileFamily(build_file) ==
  /\ ncalls < MaxCalls
  /\ \E fs \in Reorderings(build_files) :
       Parsed("parse_build_file_family", build_file,
              parse_build_file_family(fs, parser, build_file))
  /\ PFrame

NextParse ==
  \/ \E f \in ParsedFiles : ParseBuildFile(f)
  \/ \E f \in ParsedFiles : ParseBuildFileFamily(f)

SpecParse == InitParse /\ [][NextParse]_vars

\* What parser has recorded of the BUILD files it evaluated.
Recorded(ps) ==
  <<ps.target_proxy_by_address, ps.addresses_by_build_file, ps.added_build_files>>

FamilyOf(build_file) ==
  {family(build_files, build_file)[i] : i \in 1..Len(family(build_files, build_file))}

\* C23: evaluating a BUILD file that has been parsed already is a no-op: a
\* parse_build_file of a file in the parsed set, and a
\* parse_build_file_family of a family that is marked or whose files are
\* all parsed, runs no file again, raises nothing and leaves the recorded
\* TargetProxies as the first evaluation recorded them.
C23_ReparseIsNoOp ==
  /\ pcall.op = "parse_build_file" /\ pcall.build_file \in pcall.before.added_build_files
     => /\ pcall.ret = "ok"
        /\ pcall.executed = <<>>
        /\ parser = pcall.before
  /\ /\ pcall.op = "parse_build_file_family"
     /\ \/ pcall.build_file \in pcall.before.added_build_file_families
        \/ FamilyOf(pcall.build_file) \subseteq pcall.before.added_build_files
     => /\ pcall.ret = "ok"
        /\ pcall.executed = <<>>
        /\ Recorded(parser) = Recorded(pcall.before)

C23_Witness ==
  /\ pcall.op = "parse_build_file_family"
  /\ pcall.build_file \in pcall.before.added_build_file_families
  /\ Sibling(pcall.build_file) \in pcall.before.added_build_files
  /\ \E a, b \in DOMAIN parser.target_proxy_by_address :
       a # b /\ parser.target_proxy_by_address[b].dependencies = <<>>
             /\ parser.target_proxy_by_address[a].dependencies # <<>>
             /\ parser.target_proxy_by_address[a].build_file
                # parser.target_proxy_by_address[b].build_file

\* C24: a BUILD-file family is evaluated atomically: after
\* parse_build_file_family either every file of the family is parsed and all
\* its TargetProxies are recorded, or the call failed and the parser's
\* recorded state is what it was before the call.
C24_FamilyEvaluatedAtomically ==
  pcall.op = "parse_build_file_family"
  => \/ /\ pcall.ret = "ok"
        /\ FamilyOf(pcall.build_file) \subseteq parser.added_build_files
        /\ \A f \in FamilyOf(pcall.build_file) :
             DeclaredIn(f) \subseteq DOMAIN parser.target_proxy_by_address
     \/ /\ pcall.ret # "ok"
        /\ parser = pcall.before

\* Every target call of the file is a valid declaration.
AllValid(f) == \A i \in 1..Len(build_files[f]) : ~TargetProxy_raises(build_files[f][i])

\* Two target calls, of f and of g, declare the same name.
SameNameTwice(f, g) ==
  \E i \in 1..Len(build_files[f]), j \in 1..Len(build_files[g]) :
    /\ f = g => i # j
    /\ build_files[f][i].kwargs["name"] = build_files[g][j].kwargs["name"]

\* The call failed in the loop that records the proxies, after the code of
\* the last file it ran had ended normally: one of the two assertions on the
\* address.
DuplicateAddressRaised ==
  /\ pcall.ret = "AssertionError"
  /\ pcall.executed # <<>>
  /\ pcall.executed[Len(pcall.executed)].raised = NoError

\* C25: an address is never recorded for two declarations: every recorded
\* address maps to one TargetProxy, of that address, listed under its BUILD
\* file only; and evaluating valid declarations that give one name twice, in
\* one BUILD file or in two BUILD files of one directory, fails on the
\* duplicate address.
C25_NoAddressTwice ==
  /\ \A a \in DOMAIN parser.target_proxy_by_address :
       /\ parser.target_proxy_by_address[a].address = a
       /\ {f \in DOMAIN parser.addresses_by_build_file :
             a \in parser.addresses_by_build_file[f]}
          = {parser.target_proxy_by_address[a].build_file}
  /\ /\ pcall.op = "parse_build_file"
     /\ pcall.build_file \in DOMAIN build_files
     /\ AllValid(pcall.build_file)
     /\ \/ SameNameTwice(pcall.build_file, pcall.build_file)
        \/ \E g \in pcall.before.added_build_files \ {pcall.build_file} :
             SameNameTwice(pcall.build_file, g)
     => DuplicateAddressRaised
  /\ /\ pcall.op = "parse_build_file_family"
     /\ \A f \in FamilyOf(pcall.build_file) : AllValid(f)
     /\ \E f, g \in FamilyOf(pcall.build_file) : SameNameTwice(f, g)
     => DuplicateAddressRaised

C25_Witness ==
  /\ pcall.op = "parse_build_file_family"
  /\ DuplicateAddressRaised
  /\ Len(pcall.executed) = 2
  /\ \A f \in FamilyOf(pcall.build_file) : AllValid(f) /\ ~SameNameTwice(f, f)
  /\ DOMAIN parser.target_proxy_by_address # {}

\* A target call with no name, with a positional argument or with build_file.
InvalidDeclaration(call) ==
  \/ "name" \notin DOMAIN call.kwargs
  \/ Len(call.args) > 0
  \/ "build_file" \in DOMAIN call.kwargs

ValidCalls(f) ==
  {i \in 1..Len(build_files[f]) : ~InvalidDeclaration(build_files[f][i])}

\* C26: a target call with no name, with a positional argument or with a
\* build_file keyword fails: the code of a BUILD file that holds such a call
\* raises, the call of the parser raises and records nothing of the file,
\* and the collector set never holds a TargetProxy of such a call (it holds
\* proxies of valid calls only, and fewer than there are calls).
C26_InvalidDeclarationFails ==
  \A k \in 1..Len(pcall.executed) :
    LET e == pcall.executed[k]
        f == e.build_file
    IN  /\ \A i \in 1..Len(e.registered) :
             \E j \in ValidCalls(f) : e.registered[i] = TargetProxy(f, build_files[f][j])
        /\ Len(e.registered) <= Cardinality(ValidCalls(f))
        /\ ValidCalls(f) # 1..Len(build_files[f])
           => /\ e.raised = "AssertionError"
              /\ pcall.ret = "AssertionError"
              /\ k = Len(pcall.executed)
              /\ Len(e.registered) < Len(build_files[f])
              /\ f \notin parser.added_build_files
              /\ DefaultSet(parser.addresses_by_build_file, f)
                 = DefaultSet(pcall.before.addresses_by_build_file, f)

C26_Witness ==
  /\ pcall.op = "parse_build_file"
  /\ Len(pcall.executed) = 1
  /\ pcall.executed[1].raised = "AssertionError"
  /\ pcall.executed[1].registered # <<>>
  /\ parser = pcall.before
  /\ \E i \in 1..Len(build_files[pcall.build_file]) :
       Len(build_files[pcall.build_file][i].args) > 0

-----------------------------------------------------------------------------
(* One CacheKeyGenerator and four targets: k1 and k2, which may depend on  *)
(* the targets k3 and k4, which depend on nothing.  Every action is one    *)
(* key_for_target call.                                                    *)

Payloads == {<<"p">>, <<"q">>}

KeyTarget(payload, dependencies) == [payload |-> payload, dependencies |-> dependencies]

KeyDepLists == {<<>>, <<"k3">>, <<"k3", "k4">>, <<"k4", "k3">>}

KeyTargetTables ==
  {("k1" :> KeyTarget(p1, d1)) @@ ("k2" :> KeyTarget(p2, d2))
   @@ ("k3" :> KeyTarget(p3, <<>>)) @@ ("k4" :> KeyTarget(p4, <<>>)) :
     p1 \in Payloads, p2 \in Payloads, p3 \in Payloads, p4 \in Payloads,
     d1 \in KeyDepLists, d2 \in KeyDepLists}

KeysRest ==
  /\ disk = <<>>
  /\ calls = <<>>
  /\ lastWritten = [id \in Ids |-> None]
  /\ ProcsIdle
  /\ CacheIdle
  /\ GraphIdle
  /\ RegistryIdle
  /\ SnapshotterIdle

InitKeys ==
  /\ KeysRest
  /\ gen_version \in {CacheKeyGenVersion(v) : v \in CfgVersions}
  /\ key_targets \in KeyTargetTables
  /\ key_calls = <<>>
  /\ key_lists = <<>>
  /\ combined = <<>>

KFrame == UNCHANGED <<ivars, cvars, gvars, rvars, svars>>

\* A client calls key_for_target(target, transitive).
KeyForTarget(id, transitive) ==
  /\ Len(key_calls) < MaxCalls
  /\ LET r == key_for_target(gen_version, key_targets, id, transitive, 1)
     IN  key_calls' = Append(key_calls, [target |-> id, transitive |-> transitive,
                                         key |-> r.key, raised |-> r.raised])
  /\ UNCHANGED <<gen_version, key_targets, key_lists, combined>>
  /\ KFrame

NextKeys == \E id \in DOMAIN key_targets, transitive \in BOOLEAN : KeyForTarget(id, transitive)

SpecKeys == InitKeys /\ [][NextKeys]_vars

\* C27: key_for_target(t, transitive=false) is deterministic and its hash
\* depends only on the generator's version string and the payload of t: any
\* two such calls for targets of equal payload, the same target or targets
\* of different ids and dependencies, return the same hash, which is the
\* digest of the version string followed by the payload.
C27_HashOfPayloadOnly ==
  \A i, j \in 1..Len(key_calls) :
    /\ ~key_calls[i].transitive
    /\ ~key_calls[j].transitive
    /\ key_targets[key_calls[i].target].payload = key_targets[key_calls[j].target].payload
    => /\ key_calls[i].raised = NoError
       /\ key_calls[i].key.hash = key_calls[j].key.hash
       /\ key_calls[i].key.hash
          = <<"(", gen_version>> \o key_targets[key_calls[i].target].payload \o <<")">>

C27_Witness ==
  \E i, k \in 1..Len(key_calls) :
    /\ i < k
    /\ ~key_calls[i].transitive /\ ~key_calls[k].transitive
    /\ key_calls[i].target # key_calls[k].target
    /\ key_calls[i].key.hash = key_calls[k].key.hash
    /\ key_targets[key_calls[i].target].payload = key_targets[key_calls[k].target].payload
    /\ key_targets[key_calls[i].target].dependencies
       # key_targets[key_calls[k].target].dependencies

\* The sequences q and r hold the same items, each as many times.
IsPermutation(q, r) ==
  /\ Len(q) = Len(r)
  /\ \A x \in {q[i] : i \in 1..Len(q)} \cup {r[i] : i \in 1..Len(r)} :
       Cardinality({i \in 1..Len(q) : q[i] = x}) = Cardinality({i \in 1..Len(r) : r[i] = x})

\* C30: the hash of key_for_target(t, transitive=true) does not depend on
\* the order in which t lists its dependencies: two targets of equal payload
\* whose dependency lists are permutations of each other get equal hashes.
C30_DependencyOrderIrrelevant ==
  \A i, j \in 1..Len(key_calls) :
    /\ key_calls[i].transitive
    /\ key_calls[j].transitive
    /\ key_targets[key_calls[i].target].payload = key_targets[key_calls[j].target].payload
    /\ IsPermutation(key_targets[key_calls[i].target].dependencies,
                     key_targets[key_calls[j].target].dependencies)
    => /\ key_calls[i].raised = NoError
       /\ key_calls[i].key.hash = key_calls[j].key.hash

C30_Witness ==
  \E i, j \in 1..Len(key_calls) :
    /\ key_calls[i].transitive /\ key_calls[j].transitive
    /\ key_targets[key_calls[i].target].payload = key_targets[key_calls[j].target].payload
    /\ key_targets[key_calls[i].target].dependencies = <<"k3", "k4">>
    /\ key_targets[key_calls[j].target].dependencies = <<"k4", "k3">>
    /\ key_targets["k3"].payload # key_targets["k4"].payload
    /\ key_calls[i].key.hash = key_calls[j].key.hash

-----------------------------------------------------------------------------
(* Two callers of combine_cache_keys, each with a list of the same cache   *)
(* keys, the second in any order.  Every action is one call.               *)

\* Cache keys of targets without dependencies, as key_for_target makes them.
CombinableKeys ==
  {CacheKeyWithPayloads(id, hexdigest(invalidation_hash(<<CacheKeyGenVersion("")>>, payload)),
                        <<payload>>) :
     id \in Ids, payload \in Payloads}

KeyLists == UNION {[1..n -> CombinableKeys] : n \in 1..MaxKeys}

Callers == {1, 2}

InitCombine ==
  /\ KeysRest
  /\ gen_version = ""
  /\ key_targets = <<>>
  /\ key_calls = <<>>
  /\ key_lists \in UNION {{<<K, P>> : P \in Orders(K)} : K \in KeyLists}
  /\ combined = [c \in Callers |-> NoCacheKey]

\* Caller c calls CacheKeyGenerator.combine_cache_keys(its list).
CombineCacheKeys(c) ==
  /\ combined[c] = NoCacheKey
  /\ combined' = [combined EXCEPT ![c] = combine_cache_keys(key_lists[c])]
  /\ UNCHANGED <<gen_version, key_targets, key_calls, key_lists>>
  /\ KFrame

NextCombine == \E c \in Callers : CombineCacheKeys(c)

SpecCombine == InitCombine /\ [][NextCombine]_vars

\* C28: for a list K of two or more cache keys and a permutation P of it,
\* combine_cache_keys(K) = combine_cache_keys(P), in id, hash and payloads.
C28_CombineIsCommutative ==
  /\ Len(key_lists[1]) >= 2
  /\ combined[1] # NoCacheKey
  /\ combined[2] # NoCacheKey
  => /\ combined[1].id = combined[2].id
     /\ combined[1].hash = combined[2].hash
     /\ combined[1].payloads = combined[2].payloads

C28_Witness ==
  /\ Len(key_lists[1]) >= 3
  /\ key_lists[1] # key_lists[2]
  /\ key_lists[1][1].hash # key_lists[1][2].hash
  /\ key_lists[1][1].id # key_lists[1][2].id
  /\ combined[1] # NoCacheKey
  /\ combined[2] = combined[1]

\* C29: combine_cache_keys of a list of exactly one key k returns k itself,
\* with its id, its hash (not hashed again) and its payloads.
C29_CombineOfOneIsIdentity ==
  \A c \in Callers :
    Len(key_lists[c]) = 1 /\ combined[c] # NoCacheKey => combined[c] = key_lists[c][1]

C29_Witness ==
  /\ Len(key_lists[1]) = 1
  /\ combined[1] = key_lists[1][1]
  /\ combined[1].hash = <<"(", "_6", "q", ")">>

-----------------------------------------------------------------------------
(* The alias registry, a BuildFileParser and two BUILD files.  Commands    *)
(* are constructed, plug-ins register aliases, and clients evaluate BUILD  *)
(* files; each action is one whole call.                                   *)

\* Registration calls made: a Command constructed counts once.
MaxRegistrations == 2

\* build_file_aliases.py, one alias of each table
DefaultAliases ==
  [exposed_objects |-> ("jar" :> "JarDependency"),
   partial_path_relative_utils |-> ("globs" :> "Fileset.globs"),
   applicative_path_relative_utils |-> ("bundle" :> "Bundle"),
   target_alias_map |-> ("java_library" :> "JavaLibrary")]

\* What plug-ins register.
PluginAliases == {"jar", "globs"}

PluginObjects == {"PluginJar", "PluginGlobs"}

RegistryRepository ==
  (BuildFile("x") :> <<TargetCall(<<>>, [name |-> "a"])>>)
  @@ (BuildFile("y") :> <<TargetCall(<<>>, [name |-> "c"])>>)

InitRegistry ==
  /\ disk = <<>>
  /\ calls = <<>>
  /\ lastWritten = [id \in Ids |-> None]
  /\ ProcsIdle
  /\ CacheIdle
  /\ build_files = RegistryRepository
  /\ parser = BuildFileParserInit
  /\ graph = <<>>
  /\ stack = <<>>
  /\ addresses_already_closed = {}
  /\ gcall = NoCall
  /\ ncalls = 0
  /\ made = [a \in Targets |-> 0]
  /\ injected_times = [a \in Targets |-> 0]
  /\ ginj = NoInjection
  /\ pcall = NoParse
  /\ KeysIdle
  /\ RegistryIdle
  /\ SnapshotterIdle

RFrame ==
  UNCHANGED <<ivars, cvars, kvars, svars, build_files, graph, stack,
              addresses_already_closed, made, injected_times, ginj>>

Registered(partition, alias, obj) ==
  /\ nregs < MaxRegistrations
  /\ LET r == register(registry[partition], alias, obj)
     IN  /\ registry' = [registry EXCEPT ![partition] = r.dict]
         /\ rcall' = [op |-> partition, alias |-> alias, obj |-> obj, warned |-> r.warned,
                      raised |-> r.raised, before |-> registry]
  /\ nregs' = nregs + 1
  /\ last_registered' =
       [last_registered EXCEPT ![partition] =
          [a \in DOMAIN @ \cup {alias} |-> IF a = alias THEN obj ELSE @[a]]]
  /\ last_of' = [a \in DOMAIN last_of \cup {alias} |-> IF a = alias THEN obj ELSE last_of[a]]
  /\ UNCHANGED <<parse_context, parser, pcall, gcall, ncalls>>
  /\ RFrame

\* BuildFileParser.register_exposed_object(alias, obj)
RegisterExposedObject(alias, obj) == Registered("exposed_objects", alias, obj)

\* BuildFileParser.register_applicative_path_relative_util(alias, obj)
RegisterApplicativePathRelativeUtil(alias, obj) ==
  Registered("applicative_path_relative_utils", alias, obj)

\* BuildFileParser.register_partial_path_relative_util(alias, obj)
RegisterPartialPathRelativeUtil(alias, obj) ==
  Registered("partial_path_relative_utils", alias, obj)

\* BuildFileParser.register_target_alias(alias, obj)
RegisterTargetAlias(alias, obj) == Registered("target_alias_map", alias, obj)

\* Command.__init__: the four loops over the alias tables, each alias of a
\* table registered in its partition
RECURSIVE register_tables(_, _, _)
register_tables(reg, order, i) ==
  IF i > Len(order) THEN reg
  ELSE LET table == DefaultAliases[order[i]]
           alias == CHOOSE a \in DOMAIN table : TRUE
       IN  register_tables(
             [reg EXCEPT ![order[i]] = register(@, alias, table[alias]).dict],
             order, i + 1)

CommandTables ==
  <<"target_alias_map", "exposed_objects", "applicative_path_relative_utils",
    "partial_path_relative_utils">>

\* Command.__init__: registers the aliases of build_file_aliases.py, then
\* makes a BuildFileParser
CommandInit ==
  /\ nregs < MaxRegistrations
  /\ registry' = register_tables(registry, CommandTables, 1)
  /\ rcall' = [op |-> "Command", alias |-> "", obj |-> "", warned |-> FALSE,
               raised |-> NoError, before |-> registry]
  /\ nregs' = nregs + 1
  /\ last_registered' =
       [p \in PartitionNames |->
          [a \in DOMAIN last_registered[p] \cup DOMAIN DefaultAliases[p] |->
             IF a \in DOMAIN DefaultAliases[p] THEN DefaultAliases[p][a]
             ELSE last_registered[p][a]]]
  /\ last_of' =
       [a \in DOMAIN last_of \cup UNION {DOMAIN DefaultAliases[p] : p \in PartitionNames} |->
          IF \E p \in PartitionNames : a \in DOMAIN DefaultAliases[p]
          THEN DefaultAliases[CHOOSE p \in PartitionNames : a \in DOMAIN DefaultAliases[p]][a]
          ELSE last_of[a]]
  /\ parser' = BuildFileParserInit
  /\ UNCHANGED <<parse_context, pcall, gcall, ncalls>>
  /\ RFrame

\* A client calls parser.parse_build_file(build_file): unless the file was
\* parsed already or cannot be opened, its bindings are made of the registry.
EvaluateBuildFile(build_file) ==
  /\ ncalls < MaxCalls
  /\ Parsed("parse_build_file", build_file, parse_build_file(build_files, parser, build_file))
  /\ parse_context' =
       IF already_parsed(parser, build_file) \/ build_file \notin DOMAIN build_files
       THEN parse_context
       ELSE [build_file |-> build_file, bindings |-> ParseContext(registry, build_file),
             at |-> nregs]
  /\ UNCHANGED <<registry, rcall, nregs, last_registered, last_of>>
  /\ RFrame

NextRegistry ==
  \/ \E alias \in PluginAliases, obj \in PluginObjects : RegisterExposedObject(alias, obj)
  \/ \E alias \in PluginAliases, obj \in PluginObjects :
       RegisterApplicativePathRelativeUtil(alias, obj)
  \/ \E alias \in PluginAliases, obj \in PluginObjects :
       RegisterPartialPathRelativeUtil(alias, obj)
  \/ \E alias \in PluginAliases, obj \in PluginObjects : RegisterTargetAlias(alias, obj)
  \/ CommandInit
  \/ \E f \in DOMAIN RegistryRepository : EvaluateBuildFile(f)

SpecRegistry == InitRegistry /\ [][NextRegistry]_vars

\* The aliases any partition has held.
AliasesOf(reg) == UNION {DOMAIN reg[p] : p \in PartitionNames}

\* The last partition, in the order parse_build_file reads them, that holds alias.
WinningPartition(reg, alias) ==
  Partitions[CHOOSE i \in 1..Len(Partitions) :
               /\ alias \in DOMAIN reg[Partitions[i]]
               /\ \A j \in (i + 1)..Len(Partitions) : alias \notin DOMAIN reg[Partitions[j]]]

\* A BUILD file was evaluated after the most recent registration.
EvaluatedAfterwards == parse_context # NoContext /\ parse_context.at = nregs

\* C31 as stated: registration never fails and overwrites, the other aliases
\* keep, and a BUILD file evaluated afterwards binds every alias to what is
\* made of the object last registered under that alias.
C31_BoundToLastRegistered ==
  /\ rcall.raised = NoError
  /\ EvaluatedAfterwards =>
       \A a \in DOMAIN last_of :
         /\ a \in DOMAIN parse_context.bindings
         /\ parse_context.bindings[a].made_of = last_of[a]

\* C31: registering an alias never fails; re-registering overwrites the alias
\* within its partition and leaves every other alias of every partition as it
\* was; a BUILD file evaluated afterwards binds each alias to what is made of
\* the object last registered in the last partition, in the order exposed
\* objects, partial utils, applicative utils, target aliases, that holds it.
C31_RegistrationOverwritesWithinPartition ==
  /\ rcall.raised = NoError
  /\ rcall.op \in PartitionNames =>
       /\ rcall.warned = (rcall.alias \in DOMAIN rcall.before[rcall.op])
       /\ \A p \in PartitionNames :
            /\ DOMAIN registry[p] =
                 DOMAIN rcall.before[p] \cup (IF p = rcall.op THEN {rcall.alias} ELSE {})
            /\ \A a \in DOMAIN registry[p] :
                 registry[p][a] = IF p = rcall.op /\ a = rcall.alias THEN rcall.obj
                                  ELSE rcall.before[p][a]
  /\ EvaluatedAfterwards =>
       /\ DOMAIN parse_context.bindings = AliasesOf(last_registered)
       /\ \A a \in AliasesOf(last_registered) :
            LET p == WinningPartition(last_registered, a)
            IN  parse_context.bindings[a] =
                  Binding(p, last_registered[p][a], parse_context.build_file)

\* An alias registered twice in one partition, with two objects, and a BUILD
\* file evaluated afterwards.
C31_Witness ==
  /\ EvaluatedAfterwards
  /\ rcall.op \in PartitionNames
  /\ rcall.warned
  /\ rcall.before[rcall.op][rcall.alias] # rcall.obj

-----------------------------------------------------------------------------
(* One CacheKeyGenerator on the targets of a build graph that               *)
(* inject_spec_closure_into_build_graph filled from BUILD files whose       *)
(* targets declare at most one dependency each, cycles included.            *)

\* Dependency lists of at most one target.
ShortDepLists(from_path) == {<<>>} \cup {<<SpecTo(from_path, t)>> : t \in Targets}

InitGraphKeys ==
  /\ disk = <<>>
  /\ calls = <<>>
  /\ lastWritten = [id \in Ids |-> None]
  /\ ProcsIdle
  /\ CacheIdle
  /\ build_files \in {Repository(da, db, dc, "plain") :
                        da \in ShortDepLists("x"), db \in ShortDepLists("x"),
                        dc \in ShortDepLists("y")}
  /\ parser = BuildFileParserInit
  /\ graph = <<>>
  /\ stack = <<>>
  /\ addresses_already_closed = {}
  /\ gcall = NoCall
  /\ ncalls = 0
  /\ made = [a \in Targets |-> 0]
  /\ injected_times = [a \in Targets |-> 0]
  /\ ginj = NoInjection
  /\ pcall = NoParse
  /\ gen_version = CacheKeyGenVersion("")
  /\ key_targets = <<>>
  /\ key_calls = <<>>
  /\ key_lists = <<>>
  /\ combined = <<>>
  /\ RegistryIdle
  /\ SnapshotterIdle

\* The targets of the graph: Target.payload, and Target.dependencies as the
\* targets at the dependency addresses the node was injected with, in the
\* order the BUILD file lists them.
TargetsOfGraph ==
  [n \in DOMAIN graph |->
     KeyTarget(<<"p">>,
               SelectSeq(dependency_addresses(parser.target_proxy_by_address[n]),
                         LAMBDA d : d \in graph[n]))]

\* A client calls key_for_target(target, transitive) for a target of the
\* graph, no injection being under way.
KeyForGraphTarget(address, transitive) ==
  /\ stack = <<>>
  /\ address \in DOMAIN graph
  /\ Len(key_calls) < MaxCalls
  /\ key_targets' = TargetsOfGraph
  /\ LET r == key_for_target(gen_version, TargetsOfGraph, address, transitive, 1)
     IN  key_calls' = Append(key_calls, [target |-> address, transitive |-> transitive,
                                         key |-> r.key, raised |-> r.raised])
  /\ UNCHANGED <<gen_version, key_lists, combined>>
  /\ KFrame

NextGraphKeys ==
  \/ \E t \in Targets : CallInject(SpecOfAddress(t))
  \/ InjectEnter
  \/ InjectDependencies
  \/ InjectTarget
  \/ InjectTraversables
  \/ \E t \in Targets, transitive \in BOOLEAN : KeyForGraphTarget(t, transitive)

SpecGraphKeys == InitGraphKeys /\ [][NextGraphKeys]_vars

\* C35: every key_for_target(t, transitive=True) call on a target of a graph
\* that inject_spec_closure filled returns a cache key, also when the
\* declared dependencies hold a cycle.
C35_TransitiveKeyReturns ==
  \A i \in 1..Len(key_calls) :
    key_calls[i].transitive => key_calls[i].raised = NoError

-----------------------------------------------------------------------------
(* One WatchingSnapshotter with its producer and updater threads, the       *)
(* watcher's callback, and callers of get(), destroy() and stop().  A step  *)
(* of a thread is one statement on the shared events and the queue.         *)

\* Calls of get() made.
MaxGets == 2

Getters == {"c1", "c2"}

InitSnapshotter ==
  /\ disk = <<>>
  /\ calls = <<>>
  /\ lastWritten = [id \in Ids |-> None]
  /\ ProcsIdle
  /\ CacheIdle
  /\ GraphIdle
  /\ KeysIdle
  /\ RegistryIdle
  /\ running = FALSE
  /\ taken = FALSE
  /\ changed = FALSE
  /\ on_deck = <<>>
  /\ ppc = "unstarted"
  /\ psnapshot = 0
  /\ upc = "unstarted"
  /\ upath = 0
  /\ gpc = [c \in Getters |-> "idle"]
  /\ gpath = [c \in Getters |-> 0]
  /\ spc = "constructed"
  /\ snapshots = <<>>
  /\ returned = <<>>

SFrame == UNCHANGED <<ivars, cvars, gvars, kvars, rvars>>

\* start(): running.set(); taken.set(); producer.start(); updater.start();
\* watcher.start(self.handle_change)
Start ==
  /\ spc = "constructed"
  /\ running' = TRUE
  /\ taken' = TRUE
  /\ ppc' = "while"
  /\ upc' = "while"
  /\ spc' = "started"
  /\ UNCHANGED <<changed, on_deck, psnapshot, upath, gpc, gpath, snapshots, returned>>
  /\ SFrame

\* handle_change(path), called by the watcher: changed.set()
HandleChange ==
  /\ spc # "constructed"
  /\ changed' = TRUE
  /\ UNCHANGED <<running, taken, on_deck, ppc, psnapshot, upc, upath, gpc, gpath, spc,
                 snapshots, returned>>
  /\ SFrame

\* producer_loop: while self.running.is_set()
ProducerWhile ==
  /\ ppc = "while"
  /\ ppc' = IF running THEN "if" ELSE "done"
  /\ UNCHANGED <<running, taken, changed, on_deck, psnapshot, upc, upath, gpc, gpath, spc,
                 snapshots, returned>>
  /\ SFrame

\* producer_loop: if self.taken.is_set()
ProducerIf ==
  /\ ppc = "if"
  /\ ppc' = IF taken THEN ProducerSteps[1] ELSE "wait"
  /\ UNCHANGED <<running, taken, changed, on_deck, psnapshot, upc, upath, gpc, gpath, spc,
                 snapshots, returned>>
  /\ SFrame

\* producer_loop: self.taken.clear()
ProducerClear ==
  /\ ppc = "clear"
  /\ taken' = FALSE
  /\ ppc' = ProducerAfter("clear")
  /\ UNCHANGED <<running, changed, on_deck, psnapshot, upc, upath, gpc, gpath, spc,
                 snapshots, returned>>
  /\ SFrame

\* producer_loop: snapshot = self.dir_manager.create()
ProducerCreate ==
  /\ ppc = "create"
  /\ snapshots' = dir_manager_create(snapshots)
  /\ psnapshot' = Len(snapshots) + 1
  /\ ppc' = ProducerAfter("create")
  /\ UNCHANGED <<running, taken, changed, on_deck, upc, upath, gpc, gpath, spc, returned>>
  /\ SFrame

\* producer_loop: self._populate(snapshot)
ProducerPopulate ==
  /\ ppc = "populate"
  /\ snapshots' = Touched(snapshots, psnapshot, "populated")
  /\ ppc' = ProducerAfter("populate")
  /\ UNCHANGED <<running, taken, changed, on_deck, psnapshot, upc, upath, gpc, gpath, spc,
                 returned>>
  /\ SFrame

\* producer_loop: self.on_deck.put(snapshot, True), which blocks while the
\* queue is full and so never raises Queue.Full
ProducerPut ==
  /\ ppc = "put"
  /\ ~Queue_full(on_deck)
  /\ on_deck' = Append(on_deck, psnapshot)
  /\ snapshots' = Touched(snapshots, psnapshot, snapshots[psnapshot].state)
  /\ ppc' = ProducerAfter("put")
  /\ UNCHANGED <<running, taken, changed, psnapshot, upc, upath, gpc, gpath, spc, returned>>
  /\ SFrame

\* producer_loop: self.taken.wait(60) returns, taken set or not
ProducerWait ==
  /\ ppc = "wait"
  /\ ppc' = "while"
  /\ UNCHANGED <<running, taken, changed, on_deck, psnapshot, upc, upath, gpc, gpath, spc,
                 snapshots, returned>>
  /\ SFrame

Producer ==
  \/ ProducerWhile
  \/ ProducerIf
  \/ ProducerClear
  \/ ProducerCreate
  \/ ProducerPopulate
  \/ ProducerPut
  \/ ProducerWait

\* updater_loop: while self.running.is_set()
UpdaterWhile ==
  /\ upc = "while"
  /\ upc' = IF running THEN "if" ELSE "done"
  /\ UNCHANGED <<running, taken, changed, on_deck, ppc, psnapshot, upath, gpc, gpath, spc,
                 snapshots, returned>>
  /\ SFrame

\* updater_loop: if self.changed.is_set()
UpdaterIf ==
  /\ upc = "if"
  /\ upc' = IF changed THEN "clear" ELSE "wait"
  /\ UNCHANGED <<running, taken, changed, on_deck, ppc, psnapshot, upath, gpc, gpath, spc,
                 snapshots, returned>>
  /\ SFrame

\* updater_loop: self.changed.clear()
UpdaterClear ==
  /\ upc = "clear"
  /\ changed' = FALSE
  /\ upc' = "get"
  /\ UNCHANGED <<running, taken, on_deck, ppc, psnapshot, upath, gpc, gpath, spc,
                 snapshots, returned>>
  /\ SFrame

\* updater_loop: path = self.on_deck.get(False); except Queue.Empty: pass
UpdaterGet ==
  /\ upc = "get"
  /\ IF on_deck = <<>>
     THEN /\ upc' = "while"
          /\ UNCHANGED <<on_deck, upath>>
     ELSE /\ upath' = Head(on_deck)
          /\ on_deck' = Tail(on_deck)
          /\ upc' = "resync"
  /\ UNCHANGED <<running, taken, changed, ppc, psnapshot, gpc, gpath, spc, snapshots,
                 returned>>
  /\ SFrame

\* updater_loop: self.resync(path) starts rsync on the snapshot
UpdaterResync ==
  /\ upc = "resync"
  /\ snapshots' = Touched(snapshots, upath, "syncing")
  /\ upc' = "resyncing"
  /\ UNCHANGED <<running, taken, changed, on_deck, ppc, psnapshot, upath, gpc, gpath, spc,
                 returned>>
  /\ SFrame

\* resync: rsync ends and resync returns True, or rsync exits with an error
\* and _check_output raises CalledProcessError, which ends the thread.
\* (resync never returns False: the else branch of updater_loop is not run.)
UpdaterResynced ==
  /\ upc = "resyncing"
  /\ \E failed \in BOOLEAN :
       IF failed
       THEN /\ snapshots' = Touched(snapshots, upath, "partial")
            /\ upc' = "died"
       ELSE /\ snapshots' = Touched(snapshots, upath, "populated")
            /\ upc' = "put"
  /\ UNCHANGED <<running, taken, changed, on_deck, ppc, psnapshot, upath, gpc, gpath, spc,
                 returned>>
  /\ SFrame

\* updater_loop: self.on_deck.put(path, False); except Queue.Full: ...
UpdaterPut ==
  /\ upc = "put"
  /\ IF Queue_full(on_deck)
     THEN /\ upc' = "destroy"
          /\ UNCHANGED <<on_deck, snapshots>>
     ELSE /\ on_deck' = Append(on_deck, upath)
          /\ snapshots' = Touched(snapshots, upath, snapshots[upath].state)
          /\ upc' = "while"
  /\ UNCHANGED <<running, taken, changed, ppc, psnapshot, upath, gpc, gpath, spc, returned>>
  /\ SFrame

\* updater_loop: except Queue.Full: self.dir_manager.destroy(path)
UpdaterDestroy ==
  /\ upc = "destroy"
  /\ snapshots' = dir_manager_destroy(snapshots, upath)
  /\ upc' = "while"
  /\ UNCHANGED <<running, taken, changed, on_deck, ppc, psnapshot, upath, gpc, gpath, spc,
                 returned>>
  /\ SFrame

\* updater_loop: self.changed.wait(60) returns, changed set or not
UpdaterWait ==
  /\ upc = "wait"
  /\ upc' = "while"
  /\ UNCHANGED <<running, taken, changed, on_deck, ppc, psnapshot, upath, gpc, gpath, spc,
                 snapshots, returned>>
  /\ SFrame

Updater ==
  \/ UpdaterWhile
  \/ UpdaterIf
  \/ UpdaterClear
  \/ UpdaterGet
  \/ UpdaterResync
  \/ UpdaterResynced
  \/ UpdaterPut
  \/ UpdaterDestroy
  \/ UpdaterWait

\* The get() calls made so far.
GetsMade == Len(returned) + Cardinality({c \in Getters : gpc[c] # "idle"})

\* A caller calls get() on the started snapshotter.
GetCall(c) ==
  /\ spc = "started"
  /\ gpc[c] = "idle"
  /\ GetsMade < MaxGets
  /\ gpc' = [gpc EXCEPT ![c] = "get"]
  /\ UNCHANGED <<running, taken, changed, on_deck, ppc, psnapshot, upc, upath, gpath, spc,
                 snapshots, returned>>
  /\ SFrame

\* get: path = self.on_deck.get(), which blocks while the queue is empty
GetTake(c) ==
  /\ gpc[c] = "get"
  /\ on_deck # <<>>
  /\ gpath' = [gpath EXCEPT ![c] = Head(on_deck)]
  /\ on_deck' = Tail(on_deck)
  /\ snapshots' = [snapshots EXCEPT ![Head(on_deck)].handed = TRUE]
  /\ gpc' = [gpc EXCEPT ![c] = "taken"]
  /\ UNCHANGED <<running, taken, changed, ppc, psnapshot, upc, upath, spc, returned>>
  /\ SFrame

\* get: self.taken.set(); return path
GetReturn(c) ==
  /\ gpc[c] = "taken"
  /\ taken' = TRUE
  /\ returned' = Append(returned, [path |-> gpath[c], state |-> snapshots[gpath[c]].state])
  /\ gpc' = [gpc EXCEPT ![c] = "idle"]
  /\ gpath' = [gpath EXCEPT ![c] = 0]
  /\ UNCHANGED <<running, changed, on_deck, ppc, psnapshot, upc, upath, spc, snapshots>>
  /\ SFrame

\* The paths get() has returned.
ReturnedPaths == {returned[i].path : i \in 1..Len(returned)}

\* A caller calls destroy(snapshot) with a path that get() returned.
Destroy(path) ==
  /\ path \in ReturnedPaths
  /\ snapshots[path].state # "destroyed"
  /\ snapshots' = [snapshots EXCEPT ![path].state = "destroyed"]
  /\ UNCHANGED <<running, taken, changed, on_deck, ppc, psnapshot, upc, upath, gpc, gpath,
                 spc, returned>>
  /\ SFrame

\* stop(), called when no further get() will occur: self.running.clear()
StopRunningClear ==
  /\ spc = "started"
  /\ \A c \in Getters : gpc[c] = "idle"
  /\ running' = FALSE
  /\ spc' = "stop_taken"
  /\ UNCHANGED <<taken, changed, on_deck, ppc, psnapshot, upc, upath, gpc, gpath, snapshots,
                 returned>>
  /\ SFrame

\* stop: self.taken.set()
StopTakenSet ==
  /\ spc = "stop_taken"
  /\ taken' = TRUE
  /\ spc' = "stop_changed"
  /\ UNCHANGED <<running, changed, on_deck, ppc, psnapshot, upc, upath, gpc, gpath,
                 snapshots, returned>>
  /\ SFrame

\* stop: self.changed.set()
StopChangedSet ==
  /\ spc = "stop_changed"
  /\ changed' = TRUE
  /\ spc' = "empty"
  /\ UNCHANGED <<running, taken, on_deck, ppc, psnapshot, upc, upath, gpc, gpath,
                 snapshots, returned>>
  /\ SFrame

\* empty(): path = self.on_deck.get(False); self.dir_manager.destroy(path),
\* until Queue.Empty
StopEmpty ==
  /\ spc = "empty"
  /\ IF on_deck = <<>>
     THEN /\ spc' = "cleanup"
          /\ UNCHANGED <<on_deck, snapshots>>
     ELSE /\ on_deck' = Tail(on_deck)
          /\ snapshots' = dir_manager_destroy(snapshots, Head(on_deck))
          /\ UNCHANGED spc
  /\ UNCHANGED <<running, taken, changed, ppc, psnapshot, upc, upath, gpc, gpath, returned>>
  /\ SFrame

\* Snapshotter.stop: self.dir_manager.cleanup(); stop() returns
StopCleanup ==
  /\ spc = "cleanup"
  /\ \E cwd_is_output \in BOOLEAN :
       snapshots' = dir_manager_cleanup(snapshots, cwd_is_output)
  /\ spc' = "stopped"
  /\ UNCHANGED <<running, taken, changed, on_deck, ppc, psnapshot, upc, upath, gpc, gpath,
                 returned>>
  /\ SFrame

Stop ==
  \/ StopRunningClear
  \/ StopTakenSet
  \/ StopChangedSet
  \/ StopEmpty
  \/ StopCleanup

NextSnapshotter ==
  \/ Start
  \/ HandleChange
  \/ ProducerWhile
  \/ ProducerIf
  \/ ProducerClear
  \/ ProducerCreate
  \/ ProducerPopulate
  \/ ProducerPut
  \/ ProducerWait
  \/ UpdaterWhile
  \/ UpdaterIf
  \/ UpdaterClear
  \/ UpdaterGet
  \/ UpdaterResync
  \/ UpdaterResynced
  \/ UpdaterPut
  \/ UpdaterDestroy
  \/ UpdaterWait
  \/ \E c \in Getters : GetCall(c)
  \/ \E c \in Getters : GetTake(c)
  \/ \E c \in Getters : GetReturn(c)
  \/ \E path \in 1..Len(snapshots) : Destroy(path)
  \/ StopRunningClear
  \/ StopTakenSet
  \/ StopChangedSet
  \/ StopEmpty
  \/ StopCleanup

SpecSnapshotter == InitSnapshotter /\ [][NextSnapshotter]_vars

\* C37: every path get() returns is a fully populated snapshot that no
\* earlier get() returned; the producer and updater threads (and empty())
\* never resync, queue or destroy a snapshot after a get() has taken it; at
\* most one snapshot is on deck.
C37_ReturnedSnapshotsAreTheCallers ==
  /\ \A i \in 1..Len(returned) :
       /\ returned[i].state = "populated"
       /\ \A j \in 1..Len(returned) : returned[j].path = returned[i].path => i = j
  /\ \A path \in 1..Len(snapshots) : ~snapshots[path].tampered
  /\ Len(on_deck) <= 1

\* Two snapshots have been returned, and the updater has taken a third one
\* off the deck and is resyncing it.
C37_Witness ==
  /\ Len(returned) = 2
  /\ returned[1].path # returned[2].path
  /\ upc = "resyncing"
  /\ upath \notin ReturnedPaths
  /\ snapshots[upath].state = "syncing"

\* C39: once stop() has returned and the producer and updater threads have
\* left their loops, no snapshot is on deck and every snapshot that no get()
\* has taken is destroyed.
C39_StoppedLeavesNoSnapshot ==
  spc = "stopped" /\ ppc = "done" /\ upc = "done"
  => /\ on_deck = <<>>
     /\ \A path \in 1..Len(snapshots) :
          ~snapshots[path].handed => snapshots[path].state = "destroyed"

\* The producer and updater threads are scheduled fairly, and a caller
\* blocked in get() is not passed over for ever when snapshots keep coming
\* on deck.
SpecSnapshotterFair ==
  /\ SpecSnapshotter
  /\ WF_vars(Producer)
  /\ WF_vars(Updater)
  /\ \A c \in Getters : SF_vars(GetTake(c)) /\ WF_vars(GetReturn(c))

\* C38: on the started snapshotter, with the producer and updater threads
\* scheduled fairly, every call of get() returns a snapshot in the end.
C38_GetEventuallyReturns ==
  \A c \in Getters : (gpc[c] = "get") ~> (gpc[c] = "idle")

====
